---- MODULE Spec2Model ----
(***************************************************************************)
(* The persistent transcription worker of src/transcribe.py: its startup   *)
(* (lines 16-207) and the protocol loop that reads one JSON line at a time *)
(* from stdin, resolves the audio input, validates a path input, runs the  *)
(* backend (with the VAD-off retry on an empty first pass) and writes one  *)
(* response line to stdout; and the parts of the tone detector of          *)
(* src/release-3.1.0/tone_detect.py that the worker calls; the standalone  *)
(* use of that module; and the one-shot variant of                         *)
(* src/transcribe-(faster-whisper).py.                                     *)
(*                                                                         *)
(* The backend (model.transcribe), the structural probe (ffprobe), the     *)
(* filesystem, the inline decoder (pydub), the tone-detection tool and     *)
(* library, the clock and the process environment are external: each call  *)
(* draws its outcome from a small set.                                     *)
(*                                                                         *)
(* Nine specifications share the actions; each fixes what the              *)
(* environment may send:                                                   *)
(*   Spec         starts at loop entry of a worker configured for the cpu, *)
(*                reads any line of Lines, and the whole run is shorter    *)
(*                than the heartbeat interval (the clock stands still);    *)
(*   SpecStartup  starts at process start with every startup environment,  *)
(*                then reads lines of StartupLines;                        *)
(*   SpecClock    starts at loop entry, reads lines of ClockLines, and     *)
(*                time passes while the worker is blocked in readline().   *)
(*   SpecFailure  starts at loop entry and reads inline jobs whose first   *)
(*                pass can fail with any text of ErrorTexts;               *)
(*   SpecTones    starts at loop entry and reads detect_tones jobs whose   *)
(*                detection finds any combination of categories;           *)
(*   SpecConfig   starts before the tone detector is built, builds it in   *)
(*                any environment of AllToneEnvVars, then reads            *)
(*                detect_tones jobs;                                       *)
(*   SpecBusy     starts at loop entry and reads inline jobs whose backend *)
(*                calls take time, the clock running;                      *)
(*   SpecStandalone  runs tone_detect.py on local paths and URLs, the      *)
(*                temporary files staying on disk from run to run;         *)
(*   SpecOneShot  runs the one-shot variant from process start to exit.    *)
(***************************************************************************)
EXTENDS Integers, Sequences, FiniteSets, TLC

\* Number of input lines the environment sends before stdin stays silent.
MaxLines == 2
\* The clock stops here (seconds since the loop was entered).
MaxClock == 1000
\* The most runs of tone_detect.py in one behaviour.
MaxRuns == 2

(***************************************************************************)
(* Python values                                                           *)
(***************************************************************************)
\* A name that is not bound in the module's namespace ('x' not in locals()).
Unbound == "<unbound>"
\* Python's None (also what dict.get returns for a missing key).
None == "None"
\* Marks a key that the JSON object / dict does not have.
Absent == "<absent>"

\* Python truthiness of an id / a string value.
Truthy(v) == v \notin {Unbound, None, Absent, ""}

\* dict.get(key) and "key in dict" on an object whose missing keys are Absent.
Get(obj, key) == IF obj[key] = Absent THEN None ELSE obj[key]
Has(obj, key) == obj[key] # Absent

(***************************************************************************)
(* Text: a string is a sequence of characters, " " is the only whitespace. *)
(***************************************************************************)
RECURSIVE Join(_)
\* " ".join(segments_text)
Join(texts) ==
    IF Len(texts) = 0 THEN <<>>
    ELSE IF Len(texts) = 1 THEN texts[1]
    ELSE texts[1] \o <<" ">> \o Join(Tail(texts))

RECURSIVE LStrip(_)
LStrip(s) == IF Len(s) > 0 /\ s[1] = " " THEN LStrip(Tail(s)) ELSE s

RECURSIVE RStrip(_)
RStrip(s) ==
    IF Len(s) > 0 /\ s[Len(s)] = " " THEN RStrip(SubSeq(s, 1, Len(s) - 1)) ELSE s

\* str.strip()
Strip(s) == RStrip(LStrip(s))

\* transcription = " ".join(segments_text).strip()
TranscriptionOf(segments) == Strip(Join(segments))

(***************************************************************************)
(* The environment's inputs                                                *)
(***************************************************************************)
Ids == {"a", "b"}
PathNotStr == "[]"               \* a JSON value for "path" that is no string
\* A path that names no file for the whole run, and one whose file the
\* environment may create or remove at any time.
MissingPath == "/missing.wav"
Paths == {"/tmp/a.wav", MissingPath}
\* os.path.isfile(path): what it can return for a path string.
IsFileOutcomes(path) == IF path = MissingPath THEN {FALSE} ELSE BOOLEAN
\* base64 payloads: invalid base64, decodes to zero bytes, decodes to bytes
\* that are no audio container, decodes to a playable container.
B64Invalid == "!!"
B64Empty == ""
B64NotAudio == "QQ=="
B64Audio == "UklGRg=="
Payloads == {B64Invalid, B64Empty, B64NotAudio, B64Audio}

Obj(id, cmd, path, b64) ==
    [id |-> id, command |-> cmd, path |-> path, audio_data_base64 |-> b64]

\* JSON objects a line can hold: every shape of job under id "a", a second
\* id on two of them, and two objects without a usable id.
Objects ==
    {Obj("a", "transcribe", p, Absent) : p \in Paths \cup {PathNotStr}}
    \cup {Obj("a", "transcribe", Absent, d) : d \in Payloads}
    \cup {Obj("a", "transcribe", Absent, Absent)}
    \cup {Obj("a", "detect_tones", p, Absent) : p \in Paths \cup {PathNotStr}}
    \cup {Obj("a", "detect_tones", Absent, B64Audio)}
    \cup {Obj("a", c, Absent, Absent) : c \in {"bogus", Absent}}
    \cup {Obj("b", "transcribe", Absent, B64Audio),
          Obj("b", "bogus", Absent, Absent)}
    \cup {Obj(Absent, "transcribe", "/tmp/a.wav", Absent),
          Obj("", "transcribe", "/tmp/a.wav", Absent)}

NoObj == Obj(Absent, Absent, Absent, Absent)

\* What sys.stdin.readline().strip() can return, by what json.loads makes of it:
\*   "empty"     ''  (a blank line, or end of input)
\*   "notjson"   json.loads raises JSONDecodeError
\*   "nonobject" valid JSON that is no object (a list, a number, a string...)
\*   "object"    a JSON object
Lines ==
    {[kind |-> k, obj |-> NoObj] : k \in {"empty", "notjson", "nonobject"}}
    \cup {[kind |-> "object", obj |-> o] : o \in Objects}

(***************************************************************************)
(* External collaborators: the outcomes a call can have                    *)
(***************************************************************************)
\* os.path.getsize: a size in bytes (or it raises OSError).
FileSizes == {999, 1000, 104857600, 104857601}

\* subprocess.run(['ffprobe', ...], timeout=15): exit status 0, a non-zero
\* exit status, TimeoutExpired, or any other exception (tool missing).
ProbeOutcomes == {"exit0", "exit1", "timeout", "oserror"}

\* The text of a backend exception, as a sequence of words.
ErrInvalidData == <<"x:", "Invalid", "data", "found">>
ErrCudaOom == <<"CUDA", "out", "of", "memory">>
ErrOther == <<"boom">>
BackendErrors == {ErrInvalidData, ErrCudaOom, ErrOther}

\* A wider choice of exception texts: one or two words out of ErrorWords
\* (words that hold a marker in either case, as a word or inside a longer
\* word, and one that holds none), and texts around "Invalid data found".
ErrorWords == {"[Errno 1094995529]", "boom", "Corrupted", "corrupt",
               "MemoryError", "memory"}
ErrorTexts ==
    {<<w>> : w \in ErrorWords}
    \cup {<<v, w>> : v \in ErrorWords, w \in ErrorWords}
    \cup BackendErrors
    \cup {<<"Invalid", "data">>, <<"invalid", "data", "found">>,
          <<"Invalid", "data", "found", "memory">>}

\* What the backend returns: the texts of the segments.
SegsBlank == << <<" ">> >>
SegsSpeech == << <<" ", "a">>, <<"b">> >>
BackendSegments == {SegsBlank, SegsSpeech}

\* One backend call ends by raising (with a text) or by returning segments.
BackendOutcomes ==
    {[raised |-> TRUE, text |-> e, segments |-> <<>>] : e \in BackendErrors}
    \cup {[raised |-> FALSE, text |-> <<>>, segments |-> s] : s \in BackendSegments}

\* The backend raising any of ErrorTexts, or returning segments.
FailingOutcomes ==
    {[raised |-> TRUE, text |-> e, segments |-> <<>>] : e \in ErrorTexts}
    \cup {[raised |-> FALSE, text |-> <<>>, segments |-> s] : s \in BackendSegments}

\* What the tone-detection tool or library finds in a file: the calls of
\* each kind. A two-tone call has tone_a and tone_b; a pulsed or long call
\* has a frequency (held in a) and no tone_a / tone_b attribute.
ToneCall(kind, a, b) == [kind |-> kind, a |-> a, b |-> b]
Report(two_tone, pulsed, long) ==
    [two_tone |-> two_tone, pulsed |-> pulsed, long |-> long]
ReportNone == Report(<<>>, <<>>, <<>>)
ReportTwoTone == Report(<<ToneCall("two_tone", 1000, 1500)>>, <<>>, <<>>)
ReportPulsed == Report(<<>>, <<ToneCall("pulsed", 1200, 0)>>, <<>>)
Reports == {ReportNone, ReportTwoTone, ReportPulsed}

\* subprocess.run(['icad-tone-detect', ...], timeout=30): exit status 0 with
\* JSON on stdout, exit status 0 with text that is no JSON, or a failure
\* (non-zero exit status, TimeoutExpired, tool missing).
CliOutcomes ==
    {[kind |-> "json", report |-> r] : r \in Reports}
    \cup {[kind |-> "text", report |-> ReportTwoTone],
          [kind |-> "fail", report |-> ReportNone]}

\* tone_detect(path, **config) of the library: it raises or returns a result.
ApiOutcomes ==
    {[raised |-> TRUE, report |-> ReportNone]}
    \cup {[raised |-> FALSE, report |-> r] : r \in Reports}

\* What the environment answers during one detect_tones_in_file call.
ToneEnvs == [exists : BOOLEAN, cli : CliOutcomes, api : ApiOutcomes]

\* The same with every combination of categories in what is found: two-tone
\* calls or none, pulsed calls or none, long calls or none.
ReportLong == Report(<<>>, <<>>, <<ToneCall("long", 950, 0)>>)
AllReports ==
    {Report(t, p, l) : t \in {<<>>, ReportTwoTone.two_tone},
                       p \in {<<>>, ReportPulsed.pulsed,
                              ReportPulsed.pulsed \o <<ToneCall("pulsed", 800, 0)>>},
                       l \in {<<>>, ReportLong.long}}
AllCliOutcomes ==
    {[kind |-> k, report |-> r] : k \in {"json", "text"}, r \in AllReports}
    \cup {[kind |-> "fail", report |-> ReportNone]}
AllApiOutcomes ==
    {[raised |-> TRUE, report |-> ReportNone]}
    \cup {[raised |-> FALSE, report |-> r] : r \in AllReports}
AllToneEnvs == [exists : BOOLEAN, cli : AllCliOutcomes, api : AllApiOutcomes]

\* What tone_detect.py can be given on its command line: a local path, an
\* https URL of an S3 object (bucket and key), one with a bucket and no key,
\* an http URL of an S3 object, and an https URL of another server.
LocalFile == "/tmp/a.wav"
S3Url == "https://s3.example.net/bucket/a.wav"
S3UrlNoKey == "https://s3.example.net/bucket"
S3HttpUrl == "http://s3.example.net/bucket/a.wav"
HttpsUrl == "https://example.net/a.wav"
DetectorInputs == {LocalFile, S3Url, S3UrlNoKey, S3HttpUrl, HttpsUrl}

\* str.startswith and the substring test on these inputs.
StartsWith(text, prefix) ==
    \/ prefix = "https://" /\ text \in {S3Url, S3UrlNoKey, HttpsUrl}
    \/ prefix = "http://" /\ text = S3HttpUrl
HasSubstring(text, part) ==
    part = "s3" /\ text \in {S3Url, S3UrlNoKey, S3HttpUrl}

\* urlparse(url).path.strip('/').split('/', 1)
UrlPathParts(url) ==
    CASE url \in {S3Url, S3HttpUrl} -> <<"bucket", "a.wav">>
      [] url = S3UrlNoKey -> <<"bucket">>
      [] url = HttpsUrl -> <<"a.wav">>

\* How a download can go once the URL is taken apart: boto3 is not
\* installed, boto3.client raises, download_file raises, or the object is
\* written to the temporary file.
DownloadOutcomes == {"no_boto3", "client_error", "transfer_error", "ok"}

\* What the environment answers during one run of tone_detect.py.
StandaloneEnvs ==
    [exists : BOOLEAN, download : DownloadOutcomes, cli : CliOutcomes,
     api : ApiOutcomes]

\* The name tempfile.NamedTemporaryFile gives the temporary file of run n.
TempName(n) ==
    <<"/tmp/tmp1.wav", "/tmp/tmp2.wav", "/tmp/tmp3.wav", "/tmp/tmp4.wav">>[n]

(***************************************************************************)
(* The process environment, the hardware, the clock                        *)
(***************************************************************************)
\* os.getenv('WHISPER_MODEL'), os.getenv('TRANSCRIPTION_DEVICE'),
\* os.getenv('OPENAI_TRANSCRIPTION_PROMPT'): None when the variable is unset.
ModelNames == {None, "base"}
DeviceNames == {None, "cpu", "cuda", "mps"}
Prompts == {None, "10-codes"}

\* "from tone_detect import ToneDetector": the module loads, the import
\* raises ImportError (no such module), or the module itself calls
\* sys.exit(1) because icad_tone_detection is missing (tone_detect.py:31-37).
ToneImportOutcomes == {"ok", "ImportError", "SystemExit"}

\* torch.cuda.is_available() and torch.backends.mps.is_available()
Hardware == [cuda : BOOLEAN, mps : BOOLEAN]

\* Seconds that pass while the worker is blocked in readline().
NoDelay == {0}
Delays == {0, 200, 400}
\* The seconds one model.transcribe call can take.
Durations == {0, 400}

\* The lines sent after startup in SpecStartup, and in SpecClock.
StartupLines ==
    {[kind |-> k, obj |-> NoObj] : k \in {"empty", "nonobject"}}
    \cup {[kind |-> "object", obj |-> o] :
            o \in {Obj("a", "transcribe", Absent, B64Audio),
                   Obj("a", "transcribe", Absent, Absent),
                   Obj("a", "detect_tones", "/tmp/a.wav", Absent),
                   Obj("a", "bogus", Absent, Absent)}}
\* The lines of the runs that look at tone detection: detect_tones jobs, on
\* a path and without one.
ToneLines ==
    {[kind |-> "object", obj |-> Obj("a", "detect_tones", p, Absent)] :
        p \in Paths \cup {Absent}}

\* The line of the runs that look at the detector's configuration.
ConfigLines ==
    {[kind |-> "object", obj |-> Obj("a", "detect_tones", "/tmp/a.wav", Absent)]}

\* The line of the runs that look at backend failures: one inline job.
FailureLines ==
    {[kind |-> "object", obj |-> Obj("a", "transcribe", Absent, B64Audio)]}

\* The lines of the runs in which the backend takes time: a blank line and
\* one inline job.
BusyLines ==
    {[kind |-> "empty", obj |-> NoObj],
     [kind |-> "object", obj |-> Obj("a", "transcribe", Absent, B64Audio)]}

ClockLines ==
    {[kind |-> k, obj |-> NoObj] : k \in {"empty", "notjson"}}
    \cup {[kind |-> "object", obj |-> o] :
            o \in {Obj("a", "transcribe", Absent, Absent),
                   Obj("b", "bogus", Absent, Absent)}}

(***************************************************************************)
(* The configuration of the tone detector (transcribe.py lines 182-199,    *)
(* tone_detect.py lines 88-267)                                            *)
(***************************************************************************)
\* A dict over ConfigKeys holds <<>> where the key is missing, else <<value>>.
\* Three of the parameter keys: one that the worker always passes and that
\* worker and detector read from the same variable, one that they read from
\* different variables, one that only the detector reads. Numbers with a
\* decimal point are held in hundredths (2.6 is 260).
ConfigKeys == {"tone_b_min_length", "matching_threshold", "pulsed_min_cycles"}

\* os.getenv(name): unset, the text of a number, or a text that is none.
EnvUnset == [set |-> FALSE, ok |-> FALSE, num |-> 0]
EnvNum(n) == [set |-> TRUE, ok |-> TRUE, num |-> n]
EnvBad == [set |-> TRUE, ok |-> FALSE, num |-> 0]

\* The variables of the environment that the two modules read for these
\* keys. TONE_DETECTION_TYPE is None when it is unset.
AllToneEnvVars ==
    [TONE_DETECTION_TYPE : {None, "long", "pulsed", "both", "two_tone"},
     TWO_TONE_MAX_TONE_LENGTH : {EnvUnset, EnvNum(300), EnvBad},
     TWO_TONE_DETECTION_THRESHOLD : {EnvUnset, EnvNum(300)},
     TONE_DETECTION_THRESHOLD : {EnvUnset, EnvNum(150)},
     PULSED_MIN_CYCLES : {EnvUnset, EnvNum(4), EnvBad}]

\* None of them is set.
NoToneEnvVars ==
    [TONE_DETECTION_TYPE |-> None,
     TWO_TONE_MAX_TONE_LENGTH |-> EnvUnset,
     TWO_TONE_DETECTION_THRESHOLD |-> EnvUnset,
     TONE_DETECTION_THRESHOLD |-> EnvUnset,
     PULSED_MIN_CYCLES |-> EnvUnset]

\* float(os.getenv(name, default)) of the worker (lines 186-188); it raises
\* ValueError on a text that is no number.
GetenvOr(var, default) == IF var.set THEN var.num ELSE default
GetenvRaises(var) == var.set /\ ~var.ok

\* tone_config of lines 185-193: every key of it is always present.
WorkerToneConfig(env) ==
    [k \in ConfigKeys |->
        CASE k = "tone_b_min_length" ->
                 <<GetenvOr(env.TWO_TONE_MAX_TONE_LENGTH, 500)>>
          [] k = "matching_threshold" ->
                 <<GetenvOr(env.TWO_TONE_DETECTION_THRESHOLD, 250)>>
          [] OTHER -> <<>>]
WorkerToneConfigRaises(env) ==
    \/ GetenvRaises(env.TWO_TONE_MAX_TONE_LENGTH)
    \/ GetenvRaises(env.TWO_TONE_DETECTION_THRESHOLD)

\* env_config of ToneDetector.__init__ (lines 92-121): a variable that is
\* unset or no number gives no key.
EnvEntry(var) == IF var.set /\ var.ok THEN <<var.num>> ELSE <<>>
DetectorEnvConfig(env) ==
    [k \in ConfigKeys |->
        CASE k = "tone_b_min_length" -> EnvEntry(env.TWO_TONE_MAX_TONE_LENGTH)
          [] k = "matching_threshold" -> EnvEntry(env.TONE_DETECTION_THRESHOLD)
          [] k = "pulsed_min_cycles" -> EnvEntry(env.PULSED_MIN_CYCLES)]

\* {**low, **high}
MergeDicts(low, high) ==
    [k \in ConfigKeys |-> IF high[k] # <<>> THEN high[k] ELSE low[k]]

\* detection_type of line 127; the worker's config has no 'detection_type'.
DetectionType(env) ==
    IF env.TONE_DETECTION_TYPE = None THEN "auto" ELSE env.TONE_DETECTION_TYPE

\* self.default_config of lines 130-264, by detection type: the values of
\* the three keys and the two flags that decide what the tool is given.
DefaultConfig(type) ==
    CASE type = "auto" ->
           [values |-> [k \in ConfigKeys |->
                          CASE k = "tone_b_min_length" -> <<260>>
                            [] k = "matching_threshold" -> <<250>>
                            [] k = "pulsed_min_cycles" -> <<6>>],
            detect_two_tone |-> TRUE, detect_pulsed |-> TRUE]
      [] type = "long" ->
           [values |-> [k \in ConfigKeys |->
                          CASE k = "matching_threshold" -> <<200>>
                            [] OTHER -> <<>>],
            detect_two_tone |-> FALSE, detect_pulsed |-> FALSE]
      [] type = "pulsed" ->
           [values |-> [k \in ConfigKeys |->
                          CASE k = "tone_b_min_length" -> <<>>
                            [] k = "matching_threshold" -> <<200>>
                            [] k = "pulsed_min_cycles" -> <<3>>],
            detect_two_tone |-> FALSE, detect_pulsed |-> TRUE]
      [] type = "both" ->
           [values |-> [k \in ConfigKeys |->
                          CASE k = "tone_b_min_length" -> <<260>>
                            [] k = "matching_threshold" -> <<200>>
                            [] k = "pulsed_min_cycles" -> <<3>>],
            detect_two_tone |-> TRUE, detect_pulsed |-> TRUE]
      [] OTHER ->
           [values |-> [k \in ConfigKeys |->
                          CASE k = "tone_b_min_length" -> <<260>>
                            [] k = "matching_threshold" -> <<250>>
                            [] k = "pulsed_min_cycles" -> <<>>],
            detect_two_tone |-> TRUE, detect_pulsed |-> FALSE]

\* self.detection_config of ToneDetector(config) (lines 91, 124, 267):
\* {**default_config, **{**env_config, **config}}
DetectionConfigOf(config, env) ==
    LET default_config == DefaultConfig(DetectionType(env)) IN
    [default_config EXCEPT
        !.values = MergeDicts(default_config.values,
                              MergeDicts(DetectorEnvConfig(env), config))]

\* The detection_config of the worker's detector in environment env.
WorkerDetectionConfig(env) == DetectionConfigOf(WorkerToneConfig(env), env)

\* The arguments _detect_with_cli gives the tool (lines 438-480): the
\* threshold always, the keys of a category when the category is enabled,
\* each with .get(key, default).
GetOr(entry, default) == IF entry # <<>> THEN entry ELSE <<default>>
CliArgs(cfg) ==
    [k \in ConfigKeys |->
        CASE k = "matching_threshold" -> GetOr(cfg.values[k], 200)
          [] k = "tone_b_min_length" ->
                 IF cfg.detect_two_tone THEN GetOr(cfg.values[k], 260) ELSE <<>>
          [] k = "pulsed_min_cycles" ->
                 IF cfg.detect_pulsed THEN GetOr(cfg.values[k], 3) ELSE <<>>]

(***************************************************************************)
(* State                                                                   *)
(***************************************************************************)
VARIABLES
    pc,                    \* where the program is. Startup: "import",
                           \* "load_env", "validate_env", "load_model",
                           \* "init_tone", "ready"; the loop: "top", "dispatch",
                           \* "validate", "first_pass", "second_pass";
                           \* "exited" = the process has ended
    exit_code,             \* <<>> while running, <<status>> after sys.exit
    torch,                 \* the hardware torch reports (see Hardware)
    TONE_DETECTION_AVAILABLE,      \* <<>> while unbound, else <<the bool>>
    WHISPER_MODEL,         \* os.getenv(...) at startup: None or a text
    TRANSCRIPTION_DEVICE,
    OPENAI_TRANSCRIPTION_PROMPT,
    device,                \* the device the model is loaded on
    compute_type,
    tone_detector,         \* TRUE when a ToneDetector has been built
    detection_config,      \* <<>>, or <<its detection_config>>
    last_heartbeat,
    request_id,            \* module-level names of the loop body; they keep
    command,               \* their value from one iteration to the next
    audio_input,
    input_type,
    audio_bytes,
    audio_segment,
    samples,
    transcription_params,  \* <<>> while unbound, else <<the dict>>
    retry_params,
    stdout,                \* the lines written to stdout, in order
    clock,                 \* time.time(), in seconds since process start
    startup,               \* history: what the startup steps were answered
    inputLog,              \* history: the lines read from stdin, in order
    readLog,               \* history: readLog[k] = when line k was read and
                           \*          how long readline() had blocked for it
    outLine,               \* history: outLine[k] = number of lines read when
                           \*          stdout[k] was written
    calls,                 \* history: the collaborator calls made for the
                           \*          current line, with their outcomes
    paramLog,              \* history: the parameter record of every first
                           \*          pass of the run, with its line number
    temp_files,            \* the temporary files on disk that runs of
                           \* tone_detect.py have created and not deleted
    detections             \* history: the detect_tones_in_file calls of the
                           \*          runs of tone_detect.py, in order

config == <<exit_code, torch, TONE_DETECTION_AVAILABLE, WHISPER_MODEL,
            TRANSCRIPTION_DEVICE, OPENAI_TRANSCRIPTION_PROMPT, device,
            compute_type, tone_detector, detection_config, startup>>
timing == <<clock, last_heartbeat, readLog>>
buffers == <<audio_bytes, audio_segment, samples>>
params == <<transcription_params, retry_params>>
\* The names of the loop body.
loopNames == <<request_id, command, audio_input, input_type, audio_bytes,
               audio_segment, samples, transcription_params, retry_params>>
vars == <<pc, exit_code, torch, TONE_DETECTION_AVAILABLE, WHISPER_MODEL,
          TRANSCRIPTION_DEVICE, OPENAI_TRANSCRIPTION_PROMPT, device,
          compute_type, tone_detector, detection_config, last_heartbeat,
          request_id, command,
          audio_input, input_type, audio_bytes, audio_segment, samples,
          transcription_params, retry_params, stdout, clock, startup,
          inputLog, readLog, outLine, calls, paramLog, temp_files,
          detections>>
\* What a standalone use of the tone-detection module leaves behind.
standalone == <<temp_files, detections>>

ReadySignal == [ready |-> TRUE]

\* No name of the loop body is bound, nothing has been read.
LoopNamesUnbound ==
    /\ request_id = Unbound
    /\ command = NoObj
    /\ audio_input = Unbound
    /\ input_type = Unbound
    /\ audio_bytes = Unbound
    /\ audio_segment = Unbound
    /\ samples = Unbound
    /\ transcription_params = <<>>
    /\ retry_params = <<>>
    /\ inputLog = <<>>
    /\ readLog = <<>>
    /\ calls = <<>>
    /\ paramLog = <<>>
    /\ temp_files = {}
    /\ detections = <<>>

\* What the startup steps were answered when a worker configured for the cpu
\* came up, with (td) or without the tone-detection module.
StartupLogCpu(td) ==
    <<[step |-> "import_tone", outcome |-> IF td THEN "ok" ELSE "ImportError"],
      [step |-> "validate", python_ok |-> TRUE, imports_ok |-> TRUE],
      [step |-> "load_model", ok |-> TRUE]>>
    \o (IF td THEN <<[step |-> "init_tone", ok |-> TRUE, env |-> NoToneEnvVars]>>
        ELSE <<>>)

\* The state when the loop is entered by a worker configured for the cpu:
\* the ready signal has been written, nothing has been read.
Init ==
    /\ pc = "top"
    /\ exit_code = <<>>
    /\ torch = [cuda |-> FALSE, mps |-> FALSE]
    /\ tone_detector \in BOOLEAN
    /\ TONE_DETECTION_AVAILABLE = <<tone_detector>>
    /\ WHISPER_MODEL = "base"
    /\ TRANSCRIPTION_DEVICE = "cpu"
    /\ OPENAI_TRANSCRIPTION_PROMPT \in Prompts
    /\ device = "cpu"
    /\ compute_type = "int8"
    /\ detection_config = IF tone_detector
                          THEN <<WorkerDetectionConfig(NoToneEnvVars)>> ELSE <<>>
    /\ startup = StartupLogCpu(tone_detector)
    /\ clock = 0
    /\ last_heartbeat = 0
    /\ LoopNamesUnbound
    /\ stdout = <<ReadySignal>>
    /\ outLine = <<0>>

\* The state of a worker configured for the cpu when it has loaded the
\* model and is about to build the tone detector, whose module it imported.
InitConfig ==
    /\ pc = "init_tone"
    /\ exit_code = <<>>
    /\ torch = [cuda |-> FALSE, mps |-> FALSE]
    /\ tone_detector = FALSE
    /\ detection_config = <<>>
    /\ TONE_DETECTION_AVAILABLE = <<TRUE>>
    /\ WHISPER_MODEL = "base"
    /\ TRANSCRIPTION_DEVICE = "cpu"
    /\ OPENAI_TRANSCRIPTION_PROMPT = None
    /\ device = "cpu"
    /\ compute_type = "int8"
    /\ startup = SubSeq(StartupLogCpu(TRUE), 1, 3)
    /\ clock = 0
    /\ last_heartbeat = 0
    /\ LoopNamesUnbound
    /\ stdout = <<>>
    /\ outLine = <<>>

\* The state when the process starts.
InitStartup ==
    /\ pc = "import"
    /\ exit_code = <<>>
    /\ torch \in Hardware
    /\ tone_detector = FALSE
    /\ detection_config = <<>>
    /\ TONE_DETECTION_AVAILABLE = <<>>
    /\ WHISPER_MODEL = Unbound
    /\ TRANSCRIPTION_DEVICE = Unbound
    /\ OPENAI_TRANSCRIPTION_PROMPT = Unbound
    /\ device = Unbound
    /\ compute_type = Unbound
    /\ startup = <<>>
    /\ clock = 0
    /\ last_heartbeat = 0
    /\ LoopNamesUnbound
    /\ stdout = <<>>
    /\ outLine = <<>>

\* The state before the first run of tone_detect.py on a machine.
InitStandalone ==
    /\ pc = "standalone"
    /\ exit_code = <<>>
    /\ torch = [cuda |-> FALSE, mps |-> FALSE]
    /\ tone_detector = TRUE
    /\ detection_config = <<>>
    /\ TONE_DETECTION_AVAILABLE = <<TRUE>>
    /\ WHISPER_MODEL = Unbound
    /\ TRANSCRIPTION_DEVICE = Unbound
    /\ OPENAI_TRANSCRIPTION_PROMPT = Unbound
    /\ device = Unbound
    /\ compute_type = Unbound
    /\ startup = <<>>
    /\ clock = 0
    /\ last_heartbeat = 0
    /\ LoopNamesUnbound
    /\ stdout = <<>>
    /\ outLine = <<>>

\* print(json.dumps(resp)); sys.stdout.flush()
\* (n is the number of lines read so far)
Emit(resp, n) ==
    /\ stdout' = Append(stdout, resp)
    /\ outLine' = Append(outLine, n)
NoEmit == UNCHANGED <<stdout, outLine>>

(***************************************************************************)
(* Responses                                                               *)
(***************************************************************************)
\* An error text: a message template and what is formatted into it.
Msg(template, arg) == [msg |-> template, arg |-> arg]
MsgBytes(template, n) == [msg |-> template, bytes |-> n]
MsgId(template, id, text) == [msg |-> template, id |-> id, text |-> text]

\* error_response = {"id": request_id, "error": error_detail}
ErrorResponse(id, detail) == [id |-> id, error |-> detail]

\* Variant: an empty transcription is reported as an error.
SuccessResponseEmptyIsError(id, transcription) ==
    IF transcription = <<>>
    THEN [id |-> id, error |-> [msg |-> "Empty transcription", arg |-> ""]]
    ELSE [id |-> id, transcription |-> transcription]

\* success_response = {"id": request_id, "transcription": transcription}
SuccessResponse(id, transcription) == [id |-> id, transcription |-> transcription]

\* Variant: the clause reports and re-raises, which ends the loop.
LoopExceptReraise(rid, exc) ==
    [out |-> IF Truthy(rid)
             THEN <<[id |-> rid, error |-> [msg |-> "Unexpected server error: ", arg |-> exc]]>>
             ELSE <<>>,
     pc |-> "exited"]

\* The "except Exception" clause of the loop: report to the id that the name
\* request_id holds, if it holds one, and continue.
LoopExcept(rid, exc) ==
    [out |-> IF Truthy(rid)
             THEN <<ErrorResponse(rid, Msg("Unexpected server error: ", exc))>>
             ELSE <<>>,
     pc |-> "top"]

\* The "except json.JSONDecodeError" clause: continue.
JsonExcept == [out |-> <<>>, pc |-> "top"]

\* Apply what an except clause of the loop decided.
Handled(h, n) ==
    /\ pc' = h.pc
    /\ IF h.out = <<>> THEN NoEmit ELSE Emit(h.out[1], n)

(***************************************************************************)
(* Startup (lines 16-207)                                                  *)
(***************************************************************************)
\* sys.exit(status)
Exit(status) ==
    /\ pc' = "exited"
    /\ exit_code' = <<status>>

\* lines 16-23: the import of the tone-detection module
ImportToneDetect ==
    /\ pc = "import"
    /\ \E outcome \in ToneImportOutcomes :
        /\ startup' = Append(startup, [step |-> "import_tone", outcome |-> outcome])
        /\ CASE outcome = "ok" ->
                  /\ TONE_DETECTION_AVAILABLE' = <<TRUE>>
                  /\ pc' = "load_env"
                  /\ UNCHANGED exit_code
             [] outcome = "ImportError" ->     \* except ImportError
                  /\ TONE_DETECTION_AVAILABLE' = <<FALSE>>
                  /\ pc' = "load_env"
                  /\ UNCHANGED exit_code
             [] outcome = "SystemExit" ->      \* no clause catches it
                  /\ Exit(1)
                  /\ UNCHANGED TONE_DETECTION_AVAILABLE
    /\ UNCHANGED <<torch, WHISPER_MODEL, TRANSCRIPTION_DEVICE,
                   OPENAI_TRANSCRIPTION_PROMPT, device, compute_type,
                   tone_detector, detection_config, timing, loopNames, stdout, inputLog, paramLog, standalone, outLine,
                   calls>>

\* Variant: only the model identifier is required.
MissingVarsModelOnly(model, dev) ==
    IF model = None THEN {"WHISPER_MODEL"} ELSE {}

\* missing_vars = [var for var in required_vars if os.getenv(var) is None]
MissingVars(model, dev) ==
    (IF model = None THEN {"WHISPER_MODEL"} ELSE {})
    \cup (IF dev = None THEN {"TRANSCRIPTION_DEVICE"} ELSE {})

\* lines 30-47: the configuration is read; a missing required variable ends
\* the process
LoadEnvironment ==
    /\ pc = "load_env"
    /\ \E model \in ModelNames, dev \in DeviceNames, prompt \in Prompts :
        /\ WHISPER_MODEL' = model
        /\ TRANSCRIPTION_DEVICE' = dev
        /\ OPENAI_TRANSCRIPTION_PROMPT' = prompt
        /\ IF MissingVars(model, dev) # {}
           THEN Exit(1)
           ELSE /\ pc' = "validate_env"
                /\ UNCHANGED exit_code
    /\ UNCHANGED <<torch, TONE_DETECTION_AVAILABLE, device, compute_type,
                   tone_detector, detection_config, startup, timing, loopNames, stdout, inputLog, paramLog, standalone,
                   outLine, calls>>

\* validate_startup_environment() (lines 50-105): the Python version, the
\* imports of torch, faster_whisper and pydub, CUDA when it is requested.
StartupValidation(python_ok, imports_ok, requested, hw) ==
    /\ python_ok
    /\ imports_ok
    /\ (requested = "cuda" => hw.cuda)

\* lines 107-110
ValidateEnvironment ==
    /\ pc = "validate_env"
    /\ \E python_ok \in BOOLEAN, imports_ok \in BOOLEAN :
        /\ startup' = Append(startup, [step |-> "validate", python_ok |-> python_ok,
                                       imports_ok |-> imports_ok])
        /\ IF StartupValidation(python_ok, imports_ok, TRANSCRIPTION_DEVICE, torch)
           THEN /\ pc' = "load_model"
                /\ UNCHANGED exit_code
           ELSE Exit(1)
    /\ UNCHANGED <<torch, TONE_DETECTION_AVAILABLE, WHISPER_MODEL,
                   TRANSCRIPTION_DEVICE, OPENAI_TRANSCRIPTION_PROMPT, device,
                   compute_type, tone_detector, detection_config, timing, loopNames, stdout,
                   inputLog, paramLog, standalone, outLine, calls>>

\* lines 133-145: the device the model is loaded on
SelectDevice(requested, hw) ==
    IF requested = "mps" /\ ~hw.mps
    THEN (IF hw.cuda THEN "cuda" ELSE "cpu")
    ELSE IF requested = "cuda" /\ ~hw.cuda THEN "cpu"
    ELSE requested

\* lines 151-159
ComputeType(dev) ==
    IF dev = "mps" THEN "float32"
    ELSE IF dev = "cuda" THEN "float16"
    ELSE "int8"

\* lines 124-179: faster_whisper was imported by the validation, so the
\* import of line 126 finds it; the model loads, or WhisperModel raises and
\* the process ends
LoadModel ==
    /\ pc = "load_model"
    /\ device' = SelectDevice(TRANSCRIPTION_DEVICE, torch)
    /\ compute_type' = ComputeType(device')
    /\ \E ok \in BOOLEAN :
        /\ startup' = Append(startup, [step |-> "load_model", ok |-> ok])
        /\ IF ok
           THEN /\ pc' = "init_tone"
                /\ UNCHANGED exit_code
           ELSE Exit(1)
    /\ UNCHANGED <<torch, TONE_DETECTION_AVAILABLE, WHISPER_MODEL,
                   TRANSCRIPTION_DEVICE, OPENAI_TRANSCRIPTION_PROMPT,
                   tone_detector, detection_config, timing, loopNames, stdout, inputLog, paramLog, standalone, outLine,
                   calls>>

\* lines 181-199: the detector is built when the module was imported, with
\* the tone_config that the worker reads from the environment (one of
\* Envs); a failure to build it (a ValueError of float(), or an exception
\* of ToneDetector) is logged and leaves tone_detector None
InitToneDetectorWith(Envs) ==
    /\ pc = "init_tone"
    /\ IF TONE_DETECTION_AVAILABLE = <<TRUE>>
       THEN \E env \in Envs, ok \in BOOLEAN :
              LET built == ok /\ ~WorkerToneConfigRaises(env) IN
              /\ startup' = Append(startup, [step |-> "init_tone", ok |-> ok,
                                             env |-> env])
              /\ tone_detector' = built
              /\ detection_config' = IF built THEN <<WorkerDetectionConfig(env)>>
                                     ELSE <<>>
       ELSE /\ tone_detector' = FALSE
            /\ detection_config' = <<>>
            /\ UNCHANGED startup
    /\ pc' = "ready"
    /\ UNCHANGED <<exit_code, torch, TONE_DETECTION_AVAILABLE, WHISPER_MODEL,
                   TRANSCRIPTION_DEVICE, OPENAI_TRANSCRIPTION_PROMPT, device,
                   compute_type, timing, loopNames, stdout, inputLog, paramLog, standalone, outLine,
                   calls>>

InitToneDetector == InitToneDetectorWith({NoToneEnvVars})
InitToneDetectorAnyEnv == InitToneDetectorWith(AllToneEnvVars)

\* Variant: the signal is written twice.
AnnounceReadyTwice == <<ReadySignal, ReadySignal>>

\* What lines 202-203 write to stdout.
AnnounceReady == <<ReadySignal>>

\* lines 201-207: the ready signal, last_heartbeat = time.time(), and the
\* loop is entered
Ready ==
    /\ pc = "ready"
    /\ stdout' = stdout \o AnnounceReady
    /\ outLine' = outLine \o [i \in 1..Len(AnnounceReady) |-> Len(inputLog)]
    /\ last_heartbeat' = clock
    /\ pc' = "top"
    /\ UNCHANGED <<config, clock, readLog, loopNames, inputLog, paramLog, standalone, calls>>

(***************************************************************************)
(* The top of the loop and reading a line (lines 210-232, and the except   *)
(* clauses 435-449)                                                        *)
(***************************************************************************)
HeartbeatInterval == 300

\* if current_time - last_heartbeat > 300
HeartbeatDue(current_time, last) == current_time - last > HeartbeatInterval

\* json.dumps({"heartbeat": True, "timestamp": current_time})
Heartbeat(current_time) == [heartbeat |-> TRUE, timestamp |-> current_time]

\* A top of the loop that writes one heartbeat for every interval that has
\* elapsed, which lines 213-217 do not.
TopOfLoopCatchesUp(current_time, last) ==
    IF current_time - last > 2 * HeartbeatInterval
    THEN <<Heartbeat(last + HeartbeatInterval), Heartbeat(current_time)>>
    ELSE IF HeartbeatDue(current_time, last) THEN <<Heartbeat(current_time)>> ELSE <<>>

\* What lines 213-217 write at the top of an iteration.
TopOfLoop(current_time, last) ==
    IF HeartbeatDue(current_time, last) THEN <<Heartbeat(current_time)>> ELSE <<>>

\* What survives an iteration that ends before the input is resolved.
jobNames == <<audio_input, input_type, audio_bytes, audio_segment, samples,
              transcription_params, retry_params>>

\* What the except clauses make of a line that is no job: the lines written
\* and where the program goes.
NoJob(kind, rid) ==
    CASE kind = "empty" -> [out |-> <<>>, pc |-> "top"]   \* if not line: continue
      [] kind = "notjson" -> JsonExcept                   \* json.loads raises
      [] kind = "nonobject" -> LoopExcept(rid, "AttributeError")
                                           \* command.get raises AttributeError

\* One iteration from its top to the id check of line 227: the heartbeat of
\* lines 213-217, then readline() blocks for d seconds and returns line.
ReadLineWith(LineSet, DelaySet) ==
    /\ pc = "top"
    /\ Len(inputLog) < MaxLines
    /\ \E line \in LineSet, d \in DelaySet :
        LET top == TopOfLoop(clock, last_heartbeat)
            got == IF line.kind = "object"
                   THEN [out |-> <<>>,
                         pc |-> IF Truthy(Get(line.obj, "id"))
                                THEN "dispatch" ELSE "top"]
                   ELSE NoJob(line.kind, request_id)
        IN
        /\ clock + d <= MaxClock
        /\ last_heartbeat' = IF top # <<>> THEN clock ELSE last_heartbeat
        /\ clock' = clock + d
        /\ inputLog' = Append(inputLog, line)
        /\ readLog' = Append(readLog, [at |-> clock + d, waited |-> d])
        /\ calls' = <<>>
        /\ stdout' = stdout \o top \o got.out
        /\ outLine' = outLine \o [i \in 1..Len(top) |-> Len(inputLog)]
                               \o [i \in 1..Len(got.out) |-> Len(inputLog) + 1]
        /\ pc' = got.pc
        /\ command' = CASE line.kind = "object" -> line.obj
                         [] line.kind = "nonobject" -> NoObj
                         [] OTHER -> command
        /\ request_id' = IF line.kind = "object"
                         THEN Get(line.obj, "id") ELSE request_id
    /\ UNCHANGED <<config, jobNames, paramLog, standalone>>

\* At end of input readline() returns '' at once ("if not line: continue"):
\* the loop spins, and d seconds pass until the iteration modelled next.
ReadEofWith(DelaySet) ==
    /\ pc = "top"
    /\ Len(inputLog) = MaxLines
    /\ \E d \in DelaySet :
        LET top == TopOfLoop(clock, last_heartbeat) IN
        /\ clock + d <= MaxClock
        /\ last_heartbeat' = IF top # <<>> THEN clock ELSE last_heartbeat
        /\ clock' = clock + d
        /\ stdout' = stdout \o top
        /\ outLine' = outLine \o [i \in 1..Len(top) |-> Len(inputLog)]
    /\ UNCHANGED <<pc, config, loopNames, inputLog, paramLog, standalone, readLog, calls>>

ReadLine == ReadLineWith(Lines, NoDelay)
ReadEof == ReadEofWith(NoDelay)
ReadLineStartup == ReadLineWith(StartupLines, NoDelay)
ReadLineClock == ReadLineWith(ClockLines, Delays)
ReadLineBusy == ReadLineWith(BusyLines, Delays)
ReadLineFailure == ReadLineWith(FailureLines, NoDelay)
ReadLineTones == ReadLineWith(ToneLines, NoDelay)
ReadLineConfig == ReadLineWith(ConfigLines, NoDelay)
ReadEofClock == ReadEofWith(Delays)

(***************************************************************************)
(* Resolving the input (lines 234-309)                                     *)
(***************************************************************************)
PcmOf(payload) == "pcm:" \o payload

\* The job ends with the error_detail response of lines 305-309.
EndWithError(detail) ==
    /\ Emit(ErrorResponse(request_id, detail), Len(inputLog))
    /\ pc' = "top"

\* Variant: the text of the integrity check's own existence test.
PathErrorNotFound(path) == Msg("Audio file not found: ", path)

\* error_detail = f"Audio file does not exist: {audio_input}" (lines 243-244,
\* and 273-274 for detect_tones)
PathError(path) == Msg("Audio file does not exist: ", path)

\* transcribe with 'path' in command (lines 240-246)
DispatchTranscribePath ==
    /\ pc = "dispatch"
    /\ Get(command, "command") = "transcribe"
    /\ Has(command, "path")
    /\ LET path == command.path IN
       IF path = PathNotStr
       THEN \* os.path.isfile raises TypeError: the loop's except clause
            /\ Handled(LoopExcept(request_id, "TypeError"), Len(inputLog))
            /\ audio_input' = None
            /\ input_type' = None
            /\ UNCHANGED calls
       ELSE \E isfile \in IsFileOutcomes(path) :
            /\ calls' = Append(calls, [fn |-> "isfile", ret |-> isfile])
            /\ IF isfile
               THEN /\ audio_input' = path
                    /\ input_type' = "path"
                    /\ pc' = "validate"
                    /\ NoEmit
               ELSE /\ audio_input' = None
                    /\ input_type' = None
                    /\ EndWithError(PathError(path))
    /\ UNCHANGED <<config, timing, request_id, command, buffers, params, inputLog, paramLog, standalone>>

\* base64.b64decode(audio_data_base64): it raises binascii.Error or returns
\* the bytes.
B64Decode(d) ==
    CASE d = B64Invalid -> [raised |-> TRUE, bytes |-> ""]
      [] d = B64Empty -> [raised |-> FALSE, bytes |-> ""]
      [] OTHER -> [raised |-> FALSE, bytes |-> "bytes:" \o d]

\* AudioSegment.from_file(io.BytesIO(audio_bytes)) finds an audio container.
IsContainer(bytes) == bytes = "bytes:" \o B64Audio

\* Variant: a payload that pydub cannot read is passed on as it is.
InlineVerdictKeepsUnreadable(decoded) ==
    IF decoded.raised THEN "invalid_base64"
    ELSE IF decoded.bytes = "" THEN "empty"
    ELSE "ok"

\* How lines 249-265 end for what b64decode gave: the binascii.Error clause,
\* "if not audio_bytes", the "except Exception" clause, or samples.
InlineVerdict(decoded) ==
    IF decoded.raised THEN "invalid_base64"
    ELSE IF decoded.bytes = "" THEN "empty"
    ELSE IF ~IsContainer(decoded.bytes) THEN "not_audio"
    ELSE "ok"

\* The error_detail of an inline payload that is not used.
InlineError(verdict) ==
    CASE verdict = "invalid_base64" -> Msg("Invalid Base64 data received.", "")
      [] verdict = "empty" -> Msg("Decoded audio data is empty.", "")
      [] verdict = "not_audio" ->
             Msg("Error processing audio buffer: ", "CouldntDecodeError")

\* transcribe with 'audio_data_base64' and no 'path' (lines 247-265)
DispatchTranscribeBase64 ==
    /\ pc = "dispatch"
    /\ Get(command, "command") = "transcribe"
    /\ ~Has(command, "path")
    /\ Has(command, "audio_data_base64")
    /\ LET decoded == B64Decode(command.audio_data_base64)
           verdict == InlineVerdict(decoded)
       IN
       /\ audio_bytes' = IF decoded.raised THEN audio_bytes ELSE decoded.bytes
       /\ IF verdict = "ok"
          THEN /\ audio_segment' = decoded.bytes
               /\ samples' = PcmOf(decoded.bytes)
               /\ audio_input' = PcmOf(decoded.bytes)
               /\ input_type' = "buffer"
               /\ pc' = "first_pass"
               /\ NoEmit
          ELSE /\ EndWithError(InlineError(verdict))
               /\ audio_input' = None
               /\ input_type' = None
               /\ UNCHANGED <<audio_segment, samples>>
    /\ UNCHANGED <<config, timing, request_id, command, params, inputLog, paramLog, standalone, calls>>

\* transcribe with neither key (lines 266-267)
DispatchTranscribeNoInput ==
    /\ pc = "dispatch"
    /\ Get(command, "command") = "transcribe"
    /\ ~Has(command, "path")
    /\ ~Has(command, "audio_data_base64")
    /\ EndWithError(Msg("Invalid command format: missing 'path' or 'audio_data_base64'.", ""))
    /\ audio_input' = None
    /\ input_type' = None
    /\ UNCHANGED <<config, timing, request_id, command, buffers, params, inputLog, paramLog, standalone, calls>>

(***************************************************************************)
(* The tone detector (src/release-3.1.0/tone_detect.py)                    *)
(***************************************************************************)
\* The dict that detect_tones_in_file returns. data is its
\* 'detection_result': tag "cli" for {'cli_output': ...}, tag "api" for the
\* library's result object (which has .calls), tag "none" for None or for a
\* dict without the key. error is <<>> or <<the text>>.
DetectionData(tag, datacalls) == [tag |-> tag, calls |-> datacalls]
ToneDict(has, data, type, path, method, err) ==
    [has_two_tone |-> has, detection_result |-> data, detected_type |-> type,
     file_path |-> path, method |-> method, error |-> err]
ToneErrorDict(text, path) ==
    ToneDict(FALSE, DetectionData("none", <<>>), Absent, path, Absent,
             <<Msg(text, path)>>)

\* detected_types of _detect_with_cli (lines 498-505), in its order.
TypesFound(report) ==
    (IF report.two_tone # <<>> THEN <<"two-tone">> ELSE <<>>)
    \o (IF report.pulsed # <<>> THEN <<"pulsed">> ELSE <<>>)
    \o (IF report.long # <<>> THEN <<"long">> ELSE <<>>)

RECURSIVE JoinPlus(_)
\* "+".join(detected_types)
JoinPlus(types) ==
    IF Len(types) = 1 THEN types[1]
    ELSE types[1] \o "+" \o JoinPlus(Tail(types))

\* _detect_with_cli (lines 431-550): <<>> for None, else <<the dict>>.
DetectWithCli(path, outcome) ==
    IF outcome.kind = "fail" THEN <<>>
    ELSE LET types == TypesFound(outcome.report)
             type == IF types = <<>> THEN None
                     ELSE IF outcome.kind = "json" THEN JoinPlus(types)
                     ELSE types[1]
         IN <<ToneDict(types # <<>>, DetectionData("cli", <<>>), type, path,
                       "cli", <<>>)>>

\* The fallback to the library (lines 314-403): two-tone, then long, then
\* pulsed; an exception gives the error dict.
DetectWithApi(path, outcome) ==
    IF outcome.raised
    THEN ToneErrorDict("Both CLI and API failed. CLI: Not attempted, API: ", path)
    ELSE LET r == outcome.report IN
         IF r.two_tone # <<>>
         THEN ToneDict(TRUE, DetectionData("api", r.two_tone), "two-tone", path,
                       Absent, <<>>)
         ELSE IF r.long # <<>>
         THEN ToneDict(TRUE, DetectionData("api", r.long), "long", path, Absent, <<>>)
         ELSE IF r.pulsed # <<>>
         THEN ToneDict(TRUE, DetectionData("api", r.pulsed), "pulsed", path,
                       Absent, <<>>)
         ELSE ToneDict(FALSE, DetectionData("none", <<>>), None, path, Absent, <<>>)

\* Variant: the library is called after the command-line tool whatever the
\* tool returned; the tool's result is kept when it gave one.
DetectTonesInFileBothAlways(path, cfg, env) ==
    IF ~env.exists
    THEN [result |-> ToneErrorDict("Local audio file not found: ", path),
          made |-> <<[fn |-> "exists", ret |-> FALSE]>>]
    ELSE LET cli == DetectWithCli(path, env.cli) IN
         [result |-> IF cli # <<>> THEN cli[1] ELSE DetectWithApi(path, env.api),
          made |-> <<[fn |-> "exists", ret |-> TRUE],
                     [fn |-> "cli", path |-> path, args |-> CliArgs(cfg),
                      outcome |-> env.cli],
                     [fn |-> "api", path |-> path, kwargs |-> cfg,
                      outcome |-> env.api]>>]

\* detect_tones_in_file on a local path (lines 271-429), cfg being
\* self.detection_config: the dict it returns, and the collaborator calls
\* it made, with what they were given and what they returned.
DetectTonesInFile(path, cfg, env) ==
    IF ~env.exists
    THEN [result |-> ToneErrorDict("Local audio file not found: ", path),
          made |-> <<[fn |-> "exists", ret |-> FALSE]>>]
    ELSE LET cli == DetectWithCli(path, env.cli) IN
         IF cli # <<>>
         THEN [result |-> cli[1],
               made |-> <<[fn |-> "exists", ret |-> TRUE],
                          [fn |-> "cli", path |-> path, args |-> CliArgs(cfg),
                           outcome |-> env.cli]>>]
         ELSE [result |-> DetectWithApi(path, env.api),
               made |-> <<[fn |-> "exists", ret |-> TRUE],
                          [fn |-> "cli", path |-> path, args |-> CliArgs(cfg),
                           outcome |-> env.cli],
                          [fn |-> "api", path |-> path, kwargs |-> cfg,
                           outcome |-> env.api]>>]

\* download_s3_file (lines 39-83) into the temporary file temp: whether it
\* raises, and whether the temporary file has been created by then.
DownloadS3File(url, outcome, temp) ==
    IF outcome = "no_boto3" THEN [raised |-> TRUE, created |-> FALSE]
    ELSE IF Len(UrlPathParts(url)) < 2 THEN [raised |-> TRUE, created |-> FALSE]
    ELSE IF outcome = "client_error" THEN [raised |-> TRUE, created |-> FALSE]
    ELSE IF outcome = "transfer_error" THEN [raised |-> TRUE, created |-> TRUE]
    ELSE [raised |-> FALSE, created |-> TRUE]

\* Variant: an outer handler that lets the exception go.
OuterExceptPropagates(path) == [raised |-> TRUE, result |-> <<>>]

\* The outer except clause (lines 415-429): the call returns the error dict.
OuterExcept(path) ==
    [raised |-> FALSE,
     result |-> <<ToneErrorDict("Error during tone detection: ", path)>>]

\* The tool, then the library (lines 305-413), on local_file_path for
\* audio_file_path: the dict returned and whether the clean-up of lines
\* 394-399 was reached.
ToolThenLibrary(audio_file_path, local_file_path, env) ==
    LET cli == DetectWithCli(local_file_path, env.cli) IN
    IF cli # <<>> THEN [result |-> cli[1], cleanup |-> FALSE]
    ELSE [result |-> DetectWithApi(audio_file_path, env.api),
          cleanup |-> ~env.api.raised]

\* detect_tones_in_file (lines 271-429) on any input, temp being the name a
\* temporary file gets: whether it raises, <<the dict it returns>>, and the
\* temporary files it leaves on disk.
DetectTonesInFileAny(audio_file_path, env, temp) ==
    IF StartsWith(audio_file_path, "https://") /\ HasSubstring(audio_file_path, "s3")
    THEN LET dl == DownloadS3File(audio_file_path, env.download, temp) IN
         IF dl.raised
         THEN \* temp_file_created is still False in the except clause
              OuterExcept(audio_file_path)
                  @@ [left |-> IF dl.created THEN {temp} ELSE {}]
         ELSE LET run == ToolThenLibrary(audio_file_path, temp, env) IN
              [raised |-> FALSE, result |-> <<run.result>>,
               left |-> IF run.cleanup THEN {} ELSE {temp}]
    ELSE IF ~(StartsWith(audio_file_path, "http://")
              \/ StartsWith(audio_file_path, "https://"))
    THEN [raised |-> FALSE,
          result |-> <<IF env.exists
                       THEN ToolThenLibrary(audio_file_path, audio_file_path,
                                            env).result
                       ELSE ToneErrorDict("Local audio file not found: ",
                                          audio_file_path)>>,
          left |-> {}]
    ELSE [raised |-> FALSE,
          result |-> <<ToolThenLibrary(audio_file_path, audio_file_path,
                                       env).result>>,
          left |-> {}]

\* What of env a call on this input consults; the rest is set to one value.
Consulted(audio_file_path, env) ==
    LET remote == StartsWith(audio_file_path, "https://")
                  /\ HasSubstring(audio_file_path, "s3")
        url == StartsWith(audio_file_path, "http://")
               \/ StartsWith(audio_file_path, "https://")
        downloads == remote /\ Len(UrlPathParts(audio_file_path)) >= 2
        detects == IF remote THEN downloads /\ env.download = "ok"
                   ELSE url \/ env.exists
        falls_back == detects /\ env.cli.kind = "fail"
    IN [exists |-> IF url THEN TRUE ELSE env.exists,
        download |-> IF downloads THEN env.download ELSE "ok",
        cli |-> IF detects THEN env.cli
                ELSE [kind |-> "fail", report |-> ReportNone],
        api |-> IF falls_back THEN env.api
                ELSE [raised |-> TRUE, report |-> ReportNone]]

\* get_detected_tones (lines 552-580)
GetDetectedTones(r) ==
    IF ~r.has_two_tone THEN <<>>
    ELSE IF r.detection_result.tag # "api" THEN <<>>   \* no attribute 'calls'
    ELSE LET pairs == SelectSeq(r.detection_result.calls,
                                LAMBDA c : c.kind = "two_tone")
         IN [i \in 1..Len(pairs) |->
                [tone_a |-> pairs[i].a, tone_b |-> pairs[i].b,
                 duration_a |-> 0, duration_b |-> 0]]

(***************************************************************************)
(* detect_tones in the worker (transcribe.py lines 268-301)                *)
(***************************************************************************)
\* response of lines 283-291
ToneResponse(id, r, path) ==
    LET base == [id |-> id, has_two_tone |-> r.has_two_tone,
                 detected_tones |-> GetDetectedTones(r), file_path |-> path]
    IN IF r.error # <<>> THEN base @@ [error |-> r.error[1]] ELSE base

\* Variant: a job without 'path' is analysed all the same.
ToneRouteIgnoresMissingPath(available, detector, cmd) ==
    IF available # <<TRUE>> \/ ~detector THEN "unavailable" ELSE "path"

\* Which branch of lines 269-301 a detect_tones job takes.
ToneRoute(available, detector, cmd) ==
    IF available # <<TRUE>> \/ ~detector THEN "unavailable"
    ELSE IF Has(cmd, "path") THEN "path"
    ELSE "no_path"

\* Variant: a tone response that is followed by the transcription section.
AfterToneResponseFallsThrough == "validate"

\* Where the continue of line 294 sends control once the tone response is
\* written.
AfterToneResponse == "top"

\* detect_tones (lines 268-301), the environment of the detection answering
\* from Envs.
DispatchDetectTonesWith(Envs) ==
    /\ pc = "dispatch"
    /\ Get(command, "command") = "detect_tones"
    /\ audio_input' = None
    /\ input_type' = None
    /\ LET route == ToneRoute(TONE_DETECTION_AVAILABLE, tone_detector, command)
           path == command.path
       IN
       IF route = "unavailable"
       THEN /\ EndWithError(Msg("Tone detection is not available. Please install icad-tone-detection.", ""))
            /\ UNCHANGED calls
       ELSE IF route = "no_path"
       THEN /\ EndWithError(Msg("Tone detection requires 'path' parameter.", ""))
            /\ UNCHANGED calls
       ELSE IF path = PathNotStr
       THEN /\ Handled(LoopExcept(request_id, "TypeError"), Len(inputLog))
            /\ UNCHANGED calls
       ELSE \E isfile \in IsFileOutcomes(path) :
            IF ~isfile
            THEN /\ calls' = Append(calls, [fn |-> "isfile", ret |-> FALSE])
                 /\ EndWithError(PathError(path))
            ELSE \E env \in Envs, dumps_ok \in BOOLEAN :
                 LET run == DetectTonesInFile(path, detection_config[1], env)
                     \* json.dumps raises on a value it cannot serialize
                     \* (a numpy duration of a detected call)
                     raised == GetDetectedTones(run.result) # <<>> /\ ~dumps_ok
                 IN
                 /\ calls' = calls \o <<[fn |-> "isfile", ret |-> TRUE],
                                        [fn |-> "tone", path |-> path,
                                         result |-> run.result,
                                         raised |-> raised]>>
                                   \o run.made
                 /\ IF raised
                    THEN EndWithError(Msg("Error during tone detection: ", "TypeError"))
                    ELSE /\ Emit(ToneResponse(request_id, run.result, path),
                                 Len(inputLog))
                         /\ pc' = AfterToneResponse
    /\ UNCHANGED <<config, timing, request_id, command, buffers, params, inputLog, paramLog, standalone>>

DispatchDetectTones == DispatchDetectTonesWith(ToneEnvs)
DispatchDetectTonesAll == DispatchDetectTonesWith(AllToneEnvs)

\* One run of tone_detect.py (main, lines 591-614) on an input and in an
\* environment: the detect_tones_in_file call and what it leaves on disk.
RunStandalone ==
    /\ pc = "standalone"
    /\ Len(detections) < MaxRuns
    /\ \E input \in DetectorInputs, env \in StandaloneEnvs :
         LET temp == TempName(Len(detections) + 1)
             run == DetectTonesInFileAny(input, env, temp)
         IN /\ env = Consulted(input, env)
            /\ detections' = Append(detections,
                                    [input |-> input, env |-> env,
                                     raised |-> run.raised,
                                     result |-> run.result,
                                     temp |-> temp])
            /\ temp_files' = temp_files \cup run.left
    /\ UNCHANGED <<pc, config, timing, loopNames, stdout, outLine, inputLog,
                   calls, paramLog>>

\* any other command (lines 302-303)
DispatchInvalid ==
    /\ pc = "dispatch"
    /\ Get(command, "command") \notin {"transcribe", "detect_tones"}
    /\ EndWithError(Msg("Invalid command: ", Get(command, "command")))
    /\ audio_input' = None
    /\ input_type' = None
    /\ UNCHANGED <<config, timing, request_id, command, buffers, params, inputLog, paramLog, standalone, calls>>

(***************************************************************************)
(* File integrity check of a path input (lines 315-359)                    *)
(***************************************************************************)
MinFileSize == 1000
MaxFileSize == 104857600        \* 100 * 1024 * 1024

\* Variant: only the upper bound is checked.
SizeCheckNoMinimum(file_size) ==
    IF file_size > MaxFileSize THEN "too_large" ELSE "ok"

\* if file_size < 1000 ... elif file_size > 100 * 1024 * 1024
SizeCheck(file_size) ==
    IF file_size < MinFileSize THEN "too_small"
    ELSE IF file_size > MaxFileSize THEN "too_large"
    ELSE "ok"

\* Variant: a probe timeout is only logged, like any other probe exception.
ProbeVerdictTimeoutProceeds(outcome) ==
    CASE outcome = "exit0" -> "ok"
      [] outcome = "exit1" -> "corrupt"
      [] outcome = "timeout" -> "probe_err"
      [] outcome = "oserror" -> "probe_err"

\* Variant: a probe that cannot be launched counts as a corrupt file.
ProbeVerdictLaunchFailureRejects(outcome) ==
    CASE outcome = "exit0" -> "ok"
      [] outcome = "exit1" -> "corrupt"
      [] outcome = "timeout" -> "timeout"
      [] outcome = "oserror" -> "corrupt"

\* How the probe's outcome ends the check: returncode != 0, the
\* TimeoutExpired clause, the "except Exception as probe_err" clause.
ProbeVerdict(outcome) ==
    CASE outcome = "exit0" -> "ok"
      [] outcome = "exit1" -> "corrupt"
      [] outcome = "timeout" -> "timeout"
      [] outcome = "oserror" -> "probe_err"

\* What the environment answers during one check.
ValidationEnvs ==
    [isfile : BOOLEAN, stat_ok : BOOLEAN, size : FileSizes, probe : ProbeOutcomes]

\* The verdict of the whole check.
ValidationVerdict(env) ==
    IF ~env.isfile THEN "not_found"
    ELSE IF ~env.stat_ok THEN "probe_err"     \* getsize raises: same clause
    ELSE IF SizeCheck(env.size) # "ok" THEN SizeCheck(env.size)
    ELSE ProbeVerdict(env.probe)

\* The collaborator calls the check makes, in order, with what they returned.
ValidationCalls(path, env) ==
    <<[fn |-> "isfile", ret |-> env.isfile]>>
    \o (IF env.isfile
        THEN <<[fn |-> "getsize", raised |-> ~env.stat_ok,
                size |-> IF env.stat_ok THEN env.size ELSE 0]>>
        ELSE <<>>)
    \o (IF env.isfile /\ env.stat_ok /\ SizeCheck(env.size) = "ok"
        THEN <<[fn |-> "probe", path |-> path, outcome |-> env.probe]>>
        ELSE <<>>)

\* The error response of a verdict that ends the job.
ValidationError(id, verdict, path, size) ==
    CASE verdict = "not_found" -> ErrorResponse(id, Msg("Audio file not found: ", path))
      [] verdict = "too_small" -> ErrorResponse(id, MsgBytes("Audio file too small: {} bytes", size))
      [] verdict = "too_large" -> ErrorResponse(id, MsgBytes("Audio file too large: {} bytes", size))
      [] verdict = "corrupt" -> ErrorResponse(id, Msg("Corrupt audio file (ffprobe check): ", path))
      [] verdict = "timeout" -> ErrorResponse(id, Msg("File validation timeout: ", path))

Validate ==
    /\ pc = "validate"
    /\ \E env \in ValidationEnvs :
         LET verdict == ValidationVerdict(env) IN
         /\ env.isfile \in IsFileOutcomes(audio_input)
         /\ calls' = calls \o ValidationCalls(audio_input, env)
         /\ IF verdict \in {"ok", "probe_err"}
            THEN /\ pc' = "first_pass"
                 /\ NoEmit
            ELSE /\ pc' = "top"
                 /\ Emit(ValidationError(request_id, verdict, audio_input, env.size),
                         Len(inputLog))
    /\ UNCHANGED <<config, timing, request_id, command, audio_input, input_type, buffers,
                   params, inputLog, paramLog, standalone>>

(***************************************************************************)
(* Transcription (lines 361-433)                                           *)
(***************************************************************************)
\* Variant: one dict is kept for all jobs; after a retry has cleared its
\* vad_filter, the next job's first pass starts from that dict.
TranscriptionParamsReused(audio, prompt) ==
    [audio_input |-> audio,
     language |-> "en",
     beam_size |-> 3,
     vad_filter |-> IF retry_params # <<>> THEN retry_params[1].vad_filter ELSE TRUE,
     vad_parameters |-> [min_silence_duration_ms |-> 750],
     word_timestamps |-> FALSE,
     condition_on_previous_text |-> FALSE,
     prompt |-> IF Truthy(prompt) THEN prompt ELSE Absent]

\* transcription_params of lines 369-381
TranscriptionParams(audio, prompt) ==
    [audio_input |-> audio,
     language |-> "en",
     beam_size |-> 3,
     vad_filter |-> TRUE,
     vad_parameters |-> [min_silence_duration_ms |-> 750],
     word_timestamps |-> FALSE,
     condition_on_previous_text |-> FALSE,
     prompt |-> IF Truthy(prompt) THEN prompt ELSE Absent]

\* Variant: retry_params = transcription_params (no copy), so the assignment
\* changes the one dict both names refer to.
BuildRetryInPlace(tp) ==
    [first |-> [tp EXCEPT !.vad_filter = FALSE],
     retry |-> [tp EXCEPT !.vad_filter = FALSE]]

\* retry_params = transcription_params.copy(); retry_params['vad_filter'] = False
\* gives the two dicts as they are after these two statements.
BuildRetry(tp) ==
    [first |-> tp, retry |-> [tp EXCEPT !.vad_filter = FALSE]]

\* str.lower() of a word.
Lower(w) ==
    CASE w = "CUDA" -> "cuda"
      [] w = "Corrupt" -> "corrupt"
      [] w = "Corrupted" -> "corrupted"
      [] w = "Memory" -> "memory"
      [] w = "MemoryError" -> "memoryerror"
      [] w = "Invalid" -> "invalid"
      [] OTHER -> w
LowerText(t) == [i \in 1..Len(t) |-> Lower(t[i])]

\* part in word, for one word: the word itself, or a word that is written
\* with it.
WordContains(word, part) ==
    \/ word = part
    \/ <<word, part>> \in {<<"corrupted", "corrupt">>, <<"memoryerror", "memory">>}

\* needle in text: the words of the needle in a row, the last of them
\* possibly as the beginning of a longer word.
Contains(text, needle) ==
    \E i \in 1..(Len(text) - Len(needle) + 1) :
        /\ SubSeq(text, i, i + Len(needle) - 2) = SubSeq(needle, 1, Len(needle) - 1)
        /\ WordContains(text[i + Len(needle) - 1], needle[Len(needle)])

\* Variant: the memory test comes before the corrupt-audio test.
ClassifyErrorMemoryFirst(id, error_str) ==
    IF \/ Contains(LowerText(error_str), <<"out", "of", "memory">>)
       \/ Contains(LowerText(error_str), <<"memory">>)
    THEN ErrorResponse(id, MsgId("Out of memory during transcription for ID {}.", id, <<>>))
    ELSE IF \/ Contains(error_str, <<"[Errno 1094995529]">>)
            \/ Contains(error_str, <<"Invalid", "data", "found">>)
            \/ Contains(LowerText(error_str), <<"corrupt">>)
    THEN ErrorResponse(id, MsgId("Corrupt audio data for ID {}.", id, <<>>))
    ELSE ErrorResponse(id, MsgId("Error during transcription for ID {}: ", id, error_str))

\* The response of the "except Exception as e" clause (lines 412-420).
ClassifyError(id, error_str) ==
    IF \/ Contains(error_str, <<"[Errno 1094995529]">>)
       \/ Contains(error_str, <<"Invalid", "data", "found">>)
       \/ Contains(LowerText(error_str), <<"corrupt">>)
    THEN ErrorResponse(id, MsgId("Corrupt audio data for ID {}.", id, <<>>))
    ELSE IF \/ Contains(LowerText(error_str), <<"out", "of", "memory">>)
            \/ Contains(LowerText(error_str), <<"memory">>)
    THEN ErrorResponse(id, MsgId("Out of memory during transcription for ID {}.", id, <<>>))
    ELSE ErrorResponse(id, MsgId("Error during transcription for ID {}: ", id, error_str))

\* Variant: the emptiness test is made on the joined text before .strip().
AfterFirstPassNoStrip(outcome) ==
    IF outcome.raised THEN "error"
    ELSE IF Join(outcome.segments) = <<>> THEN "retry"
    ELSE "respond"

\* Variant: a failed first pass is retried without VAD, like an empty one.
AfterFirstPassRetryOnFailure(outcome) ==
    IF outcome.raised THEN "retry"
    ELSE IF TranscriptionOf(outcome.segments) = <<>> THEN "retry"
    ELSE "respond"

\* What follows a backend call of the first pass: the except clause when it
\* raised, the retry when "not transcription", else the response.
AfterFirstPass(outcome) ==
    IF outcome.raised THEN "error"
    ELSE IF TranscriptionOf(outcome.segments) = <<>> THEN "retry"
    ELSE "respond"

\* What follows the backend call of the second pass.
AfterSecondPass(outcome) ==
    IF outcome.raised THEN "error" ELSE "respond"

\* "del audio_input" of lines 408-409 and 426-428.
Cleanup ==
    audio_input' = IF input_type = "buffer" THEN Unbound ELSE audio_input

\* The end of the try block, or its except clause: one response, then the
\* next iteration.
Respond(outcome, how) ==
    /\ pc' = "top"
    /\ Cleanup
    /\ IF how = "error"
       THEN Emit(ClassifyError(request_id, outcome.text), Len(inputLog))
       ELSE Emit(SuccessResponse(request_id, TranscriptionOf(outcome.segments)),
                 Len(inputLog))

\* The first pass of lines 363-389 and what follows it, the backend
\* answering from Outcomes after one of Times (seconds).
FirstPassWith(Outcomes, Times) ==
    /\ pc = "first_pass"
    /\ LET tp == TranscriptionParams(audio_input, OPENAI_TRANSCRIPTION_PROMPT) IN
       /\ transcription_params' = <<tp>>
       /\ \E outcome \in Outcomes, took \in Times :
            /\ clock + took <= MaxClock
            /\ clock' = clock + took
            /\ calls' = Append(calls, [fn |-> "backend", params |-> tp,
                                       outcome |-> outcome])
            /\ paramLog' = Append(paramLog, [line |-> Len(inputLog), params |-> tp])
            /\ IF AfterFirstPass(outcome) = "retry"
               THEN /\ pc' = "second_pass"
                    /\ NoEmit
                    /\ UNCHANGED audio_input
               ELSE Respond(outcome, AfterFirstPass(outcome))
    /\ UNCHANGED <<config, last_heartbeat, readLog, request_id, command, input_type,
                   buffers, retry_params, inputLog, standalone>>

\* The retry of lines 391-400, the backend answering from Outcomes after
\* one of Times.
SecondPassWith(Outcomes, Times) ==
    /\ pc = "second_pass"
    /\ LET built == BuildRetry(transcription_params[1]) IN
       /\ transcription_params' = <<built.first>>
       /\ retry_params' = <<built.retry>>
       /\ \E outcome \in Outcomes, took \in Times :
            /\ clock + took <= MaxClock
            /\ clock' = clock + took
            /\ calls' = Append(calls, [fn |-> "backend", params |-> built.retry,
                                       outcome |-> outcome])
            /\ Respond(outcome, AfterSecondPass(outcome))
    /\ UNCHANGED <<config, last_heartbeat, readLog, request_id, command, input_type,
                   buffers, inputLog, paramLog, standalone>>

FirstPass == FirstPassWith(BackendOutcomes, NoDelay)
SecondPass == SecondPassWith(BackendOutcomes, NoDelay)
FirstPassFailure == FirstPassWith(FailingOutcomes, NoDelay)
FirstPassBusy == FirstPassWith(BackendOutcomes, Durations)
SecondPassBusy == SecondPassWith(BackendOutcomes, Durations)

Next ==
    \/ ReadLine
    \/ ReadEof
    \/ DispatchTranscribePath
    \/ DispatchTranscribeBase64
    \/ DispatchTranscribeNoInput
    \/ DispatchDetectTones
    \/ DispatchInvalid
    \/ Validate
    \/ FirstPass
    \/ SecondPass

Spec == Init /\ [][Next]_vars

\* The process from its start: the startup steps, then the loop on the
\* lines of StartupLines (none of them is a transcribe job with a path).
NextStartup ==
    \/ ImportToneDetect
    \/ LoadEnvironment
    \/ ValidateEnvironment
    \/ LoadModel
    \/ InitToneDetector
    \/ Ready
    \/ ReadLineStartup
    \/ ReadEof
    \/ DispatchTranscribeBase64
    \/ DispatchTranscribeNoInput
    \/ DispatchDetectTones
    \/ DispatchInvalid
    \/ FirstPass
    \/ SecondPass

SpecStartup == InitStartup /\ [][NextStartup]_vars

\* The loop with a running clock, on the lines of ClockLines.
NextClock ==
    \/ ReadLineClock
    \/ ReadEofClock
    \/ DispatchTranscribeNoInput
    \/ DispatchInvalid

SpecClock == Init /\ [][NextClock]_vars

\* The loop with a running clock, on inline jobs whose backend calls take
\* time.
NextBusy ==
    \/ ReadLineBusy
    \/ ReadEofClock
    \/ DispatchTranscribeBase64
    \/ FirstPassBusy
    \/ SecondPassBusy

SpecBusy == Init /\ [][NextBusy]_vars

\* The loop on inline jobs whose first pass can fail with any of ErrorTexts.
NextFailure ==
    \/ ReadLineFailure
    \/ ReadEof
    \/ DispatchTranscribeBase64
    \/ FirstPassFailure
    \/ SecondPass

SpecFailure == Init /\ [][NextFailure]_vars

\* The loop on detect_tones jobs, the detection finding any of AllReports.
NextTones ==
    \/ ReadLineTones
    \/ ReadEof
    \/ DispatchDetectTonesAll

SpecTones == Init /\ [][NextTones]_vars

\* The detector built in any environment of AllToneEnvVars, then the loop
\* on detect_tones jobs.
NextConfig ==
    \/ InitToneDetectorAnyEnv
    \/ Ready
    \/ ReadLineConfig
    \/ ReadEof
    \/ DispatchDetectTones

SpecConfig == InitConfig /\ [][NextConfig]_vars

\* Runs of tone_detect.py, one after the other on one machine.
NextStandalone == RunStandalone

SpecStandalone == InitStandalone /\ [][NextStandalone]_vars

(***************************************************************************)
(* The one-shot variant, transcribe-(faster-whisper).py: one process per   *)
(* audio file                                                              *)
(***************************************************************************)
\* sys.argv[1:]: no argument, or a path.
OneShotArgs == {<<>>} \cup {<<p>> : p \in Paths}

\* The state when the one-shot process starts.
InitOneShot ==
    /\ pc = "oneshot_env"
    /\ exit_code = <<>>
    /\ torch \in Hardware
    /\ tone_detector = FALSE
    /\ detection_config = <<>>
    /\ TONE_DETECTION_AVAILABLE = <<>>
    /\ WHISPER_MODEL = Unbound
    /\ TRANSCRIPTION_DEVICE = Unbound
    /\ OPENAI_TRANSCRIPTION_PROMPT = Unbound
    /\ device = Unbound
    /\ compute_type = Unbound
    /\ startup = <<>>
    /\ clock = 0
    /\ last_heartbeat = 0
    /\ LoopNamesUnbound
    /\ stdout = <<>>
    /\ outLine = <<>>

\* lines 15-26: the two required variables; a missing one ends the process
OneShotLoadEnvironment ==
    /\ pc = "oneshot_env"
    /\ \E model \in ModelNames, dev \in DeviceNames :
        /\ WHISPER_MODEL' = model
        /\ TRANSCRIPTION_DEVICE' = dev
        /\ IF MissingVars(model, dev) # {}
           THEN Exit(1)
           ELSE /\ pc' = "oneshot_main"
                /\ UNCHANGED exit_code
    /\ UNCHANGED <<torch, TONE_DETECTION_AVAILABLE, OPENAI_TRANSCRIPTION_PROMPT,
                   device, compute_type, tone_detector, detection_config,
                   startup, timing, loopNames, stdout, outLine, inputLog,
                   calls, paramLog, standalone>>

\* device of lines 55-58 and compute_type of line 71
OneShotDevice(requested, hw) ==
    IF requested = "cuda" /\ ~hw.cuda THEN "cpu" ELSE requested
OneShotComputeType(dev) == IF dev = "cuda" THEN "float16" ELSE "int8"

\* main up to the loaded model (lines 40-87): how far it gets with these
\* arguments, the file being there or not, faster_whisper importing or not,
\* the model loading or not. Errors of lines 68 and 86 go to stderr.
OneShotPrepare(argv, isfile, import_ok, load_ok) ==
    IF argv = <<>>
    THEN [reached |-> "usage",
          out |-> <<[error |-> Msg("Usage: python transcribe.py <audio_file_path>", "")]>>]
    ELSE IF ~isfile
    THEN [reached |-> "isfile",
          out |-> <<[error |-> Msg("Audio file does not exist: ", argv[1])]>>]
    ELSE IF ~import_ok THEN [reached |-> "import", out |-> <<>>]
    ELSE IF ~load_ok THEN [reached |-> "load", out |-> <<>>]
    ELSE [reached |-> "transcribe", out |-> <<>>]

OneShotMain ==
    /\ pc = "oneshot_main"
    /\ \E argv \in OneShotArgs, isfile \in BOOLEAN, import_ok \in BOOLEAN,
          load_ok \in BOOLEAN :
         LET got == OneShotPrepare(argv, isfile, import_ok, load_ok)
             dev == OneShotDevice(TRANSCRIPTION_DEVICE, torch)
         IN
         /\ argv # <<>> => isfile \in IsFileOutcomes(argv[1])
         \* what was not consulted is left at one value
         /\ got.reached \in {"usage"} => isfile
         /\ got.reached \in {"usage", "isfile"} => import_ok
         /\ got.reached \in {"usage", "isfile", "import"} => load_ok
         /\ startup' = Append(startup, [step |-> "oneshot", argv |-> argv,
                                        isfile |-> isfile,
                                        import_ok |-> import_ok,
                                        load_ok |-> load_ok])
         /\ stdout' = stdout \o got.out
         /\ outLine' = outLine \o [i \in 1..Len(got.out) |-> 0]
         /\ device' = IF got.reached \in {"usage", "isfile"} THEN device ELSE dev
         /\ compute_type' = IF got.reached \in {"load", "transcribe"}
                            THEN OneShotComputeType(dev) ELSE compute_type
         /\ IF got.reached = "transcribe"
            THEN /\ pc' = "oneshot_first"
                 /\ audio_input' = argv[1]
                 /\ UNCHANGED exit_code
            ELSE /\ Exit(1)
                 /\ UNCHANGED audio_input
    /\ UNCHANGED <<torch, TONE_DETECTION_AVAILABLE, WHISPER_MODEL,
                   TRANSCRIPTION_DEVICE, OPENAI_TRANSCRIPTION_PROMPT,
                   tone_detector, detection_config, timing, request_id,
                   command, input_type, buffers, params, inputLog, calls,
                   paramLog, standalone>>

\* The keyword arguments of the two model.transcribe calls (lines 91-97 and
\* 108-113).
OneShotParams(path) ==
    [audio_input |-> path, language |-> "en", beam_size |-> 5,
     vad_filter |-> TRUE,
     vad_parameters |-> [min_silence_duration_ms |-> 500]]
OneShotRetryParams(path) ==
    [audio_input |-> path, language |-> "en", beam_size |-> 5,
     vad_filter |-> FALSE]

\* Variant: the emptiness test is made on the joined text before .strip().
OneShotAfterFirstPassNoStrip(outcome) ==
    IF outcome.raised THEN "error"
    ELSE IF Join(outcome.segments) = <<>> THEN "retry"
    ELSE "respond"

\* What follows the first call (lines 99-106, 119-122): the except clause
\* when it raised, the second call when "not transcription", else the
\* response.
OneShotAfterFirstPass(outcome) ==
    IF outcome.raised THEN "error"
    ELSE IF Strip(Join(outcome.segments)) = <<>> THEN "retry"
    ELSE "respond"

\* The end of main after a result (lines 117-118, then the process ends
\* with status 0), or its except clause (119-122: the error goes to stderr).
OneShotFinish(outcome) ==
    IF outcome.raised
    THEN /\ NoEmit
         /\ Exit(1)
    ELSE /\ Emit([transcription |-> Strip(Join(outcome.segments))], 0)
         /\ Exit(0)

\* the first call (lines 90-106)
OneShotFirstPass ==
    /\ pc = "oneshot_first"
    /\ \E outcome \in BackendOutcomes :
         /\ calls' = Append(calls, [fn |-> "backend",
                                    params |-> OneShotParams(audio_input),
                                    outcome |-> outcome])
         /\ IF OneShotAfterFirstPass(outcome) = "retry"
            THEN /\ pc' = "oneshot_second"
                 /\ NoEmit
                 /\ UNCHANGED exit_code
            ELSE OneShotFinish(outcome)
    /\ UNCHANGED <<torch, TONE_DETECTION_AVAILABLE, WHISPER_MODEL,
                   TRANSCRIPTION_DEVICE, OPENAI_TRANSCRIPTION_PROMPT, device,
                   compute_type, tone_detector, detection_config, startup,
                   timing, loopNames, inputLog, paramLog, standalone>>

\* the second call (lines 107-115)
OneShotSecondPass ==
    /\ pc = "oneshot_second"
    /\ \E outcome \in BackendOutcomes :
         /\ calls' = Append(calls, [fn |-> "backend",
                                    params |-> OneShotRetryParams(audio_input),
                                    outcome |-> outcome])
         /\ OneShotFinish(outcome)
    /\ UNCHANGED <<torch, TONE_DETECTION_AVAILABLE, WHISPER_MODEL,
                   TRANSCRIPTION_DEVICE, OPENAI_TRANSCRIPTION_PROMPT, device,
                   compute_type, tone_detector, detection_config, startup,
                   timing, loopNames, inputLog, paramLog, standalone>>

NextOneShot ==
    \/ OneShotLoadEnvironment
    \/ OneShotMain
    \/ OneShotFirstPass
    \/ OneShotSecondPass

SpecOneShot == InitOneShot /\ [][NextOneShot]_vars

(***************************************************************************)
(* Vocabulary of the properties                                            *)
(***************************************************************************)
LoopPcs == {"top", "dispatch", "validate", "first_pass", "second_pass"}

\* The number of the line being handled (0 before the first read).
cur == Len(inputLog)

\* A line that parses to a job with a non-empty id, and that id.
LineIsJob(l) == l.kind = "object" /\ l.obj.id \notin {Absent, ""}
JobId(l) == l.obj.id

\* Line k has been handled to its end.
Handled_(k) == k < cur \/ (k = cur /\ pc = "top")

\* The positions on stdout of the lines written while line k was handled.
WrittenDuring(k) == {j \in 1..Len(stdout) : outLine[j] = k}

\* A response line (not the ready signal) and its kind.
IsResponse(r) == "id" \in DOMAIN r
IsError(r) == "error" \in DOMAIN r
IsTranscription(r) == "transcription" \in DOMAIN r

\* The one response of the current line, when there is exactly one.
OneResponse == Cardinality(WrittenDuring(cur)) = 1
TheResponse == stdout[CHOOSE j \in WrittenDuring(cur) : TRUE]

\* The collaborator calls of the current line, by collaborator.
CallsOf(fn) == SelectSeq(calls, LAMBDA c : c.fn = fn)
BackendCalls == CallsOf("backend")
FirstText == TranscriptionOf(BackendCalls[1].outcome.segments)

\* The current line is a job and its single response is this error.
EndsWithError(template) ==
    /\ pc = "top"
    /\ OneResponse
    /\ IsError(TheResponse)
    /\ TheResponse.id = JobId(inputLog[cur])
    /\ TheResponse.error.msg = template

(***************************************************************************)
(* C1: every line that parses to a job with a non-empty id gets exactly    *)
(* one response line carrying that id, written while that line is handled; *)
(* no response carrying its id is written while a later line that is not a *)
(* job with that id is handled.                                            *)
(***************************************************************************)
C1_ExactlyOneResponsePerJob ==
    \A k \in 1..cur :
        LineIsJob(inputLog[k]) /\ Handled_(k) =>
            /\ Cardinality({j \in WrittenDuring(k) :
                              /\ IsResponse(stdout[j])
                              /\ stdout[j].id = JobId(inputLog[k])}) = 1
            /\ Cardinality(WrittenDuring(k)) = 1
            /\ \A m \in (k + 1)..cur :
                 \A j \in WrittenDuring(m) :
                    IsResponse(stdout[j]) /\ stdout[j].id = JobId(inputLog[k])
                        => LineIsJob(inputLog[m])
                           /\ JobId(inputLog[m]) = JobId(inputLog[k])

\* The part of C1 that the code keeps: a handled job line has exactly one
\* response, with its id, among the lines written while it was handled.
C1_OneResponseWhileHandled ==
    \A k \in 1..cur :
        LineIsJob(inputLog[k]) /\ Handled_(k) =>
            /\ Cardinality(WrittenDuring(k)) = 1
            /\ \A j \in WrittenDuring(k) :
                 IsResponse(stdout[j]) /\ stdout[j].id = JobId(inputLog[k])

(***************************************************************************)
(* C2: a line that is not valid JSON, is valid JSON but no job object, or  *)
(* is an object without a non-empty id, causes no line on stdout and       *)
(* control is back at the top of the loop.                                 *)
(***************************************************************************)
C2_NoResponseForUnparsableLine ==
    \A k \in 1..cur :
        ~LineIsJob(inputLog[k]) =>
            /\ WrittenDuring(k) = {}
            /\ (k = cur => pc = "top")

(***************************************************************************)
(* C3: the worker never leaves the loop: whatever was read and whatever    *)
(* failed, control is inside the loop, and it is back at the top as soon   *)
(* as the line's response is written or the line turned out to be no job.  *)
(***************************************************************************)
C3_StaysInLoop ==
    /\ pc \in LoopPcs
    /\ (cur > 0 /\ WrittenDuring(cur) # {} => pc = "top")
    /\ (cur > 0 /\ ~LineIsJob(inputLog[cur]) => pc = "top")

\* A non-object line after a job: the loop's except clause has reported and
\* the loop goes on.
C3_Witness ==
    /\ cur > 0
    /\ inputLog[cur].kind = "nonobject"
    /\ WrittenDuring(cur) # {}
    /\ pc = "top"

(***************************************************************************)
(* C4: a job makes at most two backend calls; it makes a second one if and *)
(* only if the first returned and its text, joined and trimmed, is empty.  *)
(***************************************************************************)
C4_RetryIffFirstPassEmpty ==
    /\ Len(BackendCalls) <= 2
    /\ (Len(BackendCalls) = 2 =>
            /\ ~BackendCalls[1].outcome.raised
            /\ FirstText = <<>>)
    /\ (pc = "top" /\ Len(BackendCalls) = 1 =>
            \/ BackendCalls[1].outcome.raised
            \/ FirstText # <<>>)

\* A first pass whose segments join to a blank text, and the second call.
C4_Witness ==
    /\ pc = "top"
    /\ Len(BackendCalls) = 2
    /\ Join(BackendCalls[1].outcome.segments) # <<>>

(***************************************************************************)
(* C5: the parameters of the second call equal those of the first in every *)
(* field except vad_filter, which is False; the prompt, when configured,   *)
(* is in both; transcription_params still has vad_filter True after the    *)
(* retry.                                                                  *)
(***************************************************************************)
C5_RetryParamsDifferOnlyInVad ==
    Len(BackendCalls) = 2 =>
        LET p1 == BackendCalls[1].params
            p2 == BackendCalls[2].params
        IN /\ DOMAIN p2 = DOMAIN p1
           /\ \A f \in DOMAIN p1 \ {"vad_filter"} : p2[f] = p1[f]
           /\ p1.vad_filter = TRUE
           /\ p2.vad_filter = FALSE
           /\ (OPENAI_TRANSCRIPTION_PROMPT # None =>
                 /\ p1.prompt = OPENAI_TRANSCRIPTION_PROMPT
                 /\ p2.prompt = OPENAI_TRANSCRIPTION_PROMPT)
           /\ transcription_params = <<p1>>
           /\ transcription_params[1].vad_filter = TRUE
           /\ retry_params = <<p2>>

C5_Witness ==
    /\ Len(BackendCalls) = 2
    /\ OPENAI_TRANSCRIPTION_PROMPT # None
    /\ retry_params # <<>>

(***************************************************************************)
(* C6: when both passes return an empty text, the job's single response is *)
(* {id, transcription: ""}, without an error field.                        *)
(***************************************************************************)
BothPassesEmpty ==
    /\ Len(BackendCalls) = 2
    /\ \A i \in 1..2 :
         /\ ~BackendCalls[i].outcome.raised
         /\ TranscriptionOf(BackendCalls[i].outcome.segments) = <<>>

C6_EmptyAfterBothPassesIsSuccess ==
    BothPassesEmpty =>
        /\ pc = "top"
        /\ OneResponse
        /\ TheResponse = [id |-> JobId(inputLog[cur]), transcription |-> <<>>]
        /\ ~IsError(TheResponse)

C6_Witness == BothPassesEmpty /\ pc = "top"

(***************************************************************************)
(* C7: a backend call that raises is the job's last backend call, and the  *)
(* job ends with exactly one error response carrying its id.               *)
(***************************************************************************)
C7_NoRetryOnBackendFailure ==
    \A i \in 1..Len(BackendCalls) :
        BackendCalls[i].outcome.raised =>
            /\ i = Len(BackendCalls)
            /\ pc = "top"
            /\ OneResponse
            /\ IsError(TheResponse)
            /\ TheResponse.id = JobId(inputLog[cur])

\* The second pass raises after an empty first pass.
C7_Witness ==
    /\ Len(BackendCalls) = 2
    /\ BackendCalls[2].outcome.raised
    /\ pc = "top"

(***************************************************************************)
(* C8: a path input whose size is below 1000 bytes or above 100 MiB ends   *)
(* with an error response, too-small and too-large with different          *)
(* messages, and neither the probe nor the backend is called.              *)
(***************************************************************************)
C8_SizeOutOfBoundsRejected ==
    \A i \in 1..Len(calls) :
        calls[i].fn = "getsize" /\ ~calls[i].raised
        /\ (calls[i].size < 1000 \/ calls[i].size > 100 * 1024 * 1024) =>
            /\ CallsOf("probe") = <<>>
            /\ BackendCalls = <<>>
            /\ EndsWithError(IF calls[i].size < 1000
                             THEN "Audio file too small: {} bytes"
                             ELSE "Audio file too large: {} bytes")
            /\ TheResponse.error.bytes = calls[i].size

C8_Witness ==
    /\ pc = "top"
    /\ \E i \in 1..Len(calls) :
         calls[i].fn = "getsize" /\ ~calls[i].raised /\ calls[i].size < 1000

(***************************************************************************)
(* C9: a probe that exits non-zero ends the job with the corrupt-audio     *)
(* error, a probe that times out ends it with the validation-timeout       *)
(* error; no backend call is made and the loop is back at its top.         *)
(***************************************************************************)
C9_ProbeFailureEndsJob ==
    \A i \in 1..Len(calls) :
        calls[i].fn = "probe" /\ calls[i].outcome \in {"exit1", "timeout"} =>
            /\ BackendCalls = <<>>
            /\ EndsWithError(IF calls[i].outcome = "exit1"
                             THEN "Corrupt audio file (ffprobe check): "
                             ELSE "File validation timeout: ")
            /\ TheResponse.error.arg = calls[i].path

C9_Witness ==
    /\ pc = "top"
    /\ \E i \in 1..Len(calls) :
         calls[i].fn = "probe" /\ calls[i].outcome = "timeout"

(***************************************************************************)
(* C10: when the validation step raises anything but the probe's timeout   *)
(* (the size cannot be read, the probe cannot be launched), the validator  *)
(* writes nothing and the job goes on to the first backend pass: whatever  *)
(* is written for the job is written by the transcription stage.           *)
(***************************************************************************)
ValidationRaised ==
    \E i \in 1..Len(calls) :
        \/ calls[i].fn = "getsize" /\ calls[i].raised
        \/ calls[i].fn = "probe" /\ calls[i].outcome = "oserror"

C10_ProbeErrorProceeds ==
    ValidationRaised =>
        /\ pc \in {"first_pass", "second_pass", "top"}
        /\ (pc = "first_pass" => WrittenDuring(cur) = {})
        /\ (pc # "first_pass" => Len(BackendCalls) >= 1)
        /\ BackendCalls # <<>> => BackendCalls[1].params.vad_filter = TRUE
        /\ \A j \in WrittenDuring(cur) :
             \/ IsTranscription(stdout[j])
             \/ /\ IsError(stdout[j])
                /\ stdout[j].error.msg \in
                     {"Corrupt audio data for ID {}.",
                      "Out of memory during transcription for ID {}.",
                      "Error during transcription for ID {}: "}

C10_Witness ==
    /\ \E i \in 1..Len(calls) :
         calls[i].fn = "probe" /\ calls[i].outcome = "oserror"
    /\ Len(BackendCalls) >= 1

(***************************************************************************)
(* C11: the ready signal is written exactly once in the life of the        *)
(* worker: at most one line of stdout is the ready signal at any time, it  *)
(* is the first line of stdout, it was written when no line had been read, *)
(* and it is there once the loop is entered or a line has been read.       *)
(***************************************************************************)
ReadyLines == {j \in 1..Len(stdout) : stdout[j] = ReadySignal}

C11_ReadyOnceFirstBeforeRead ==
    /\ Cardinality(ReadyLines) <= 1
    /\ (stdout # <<>> => stdout[1] = ReadySignal /\ outLine[1] = 0)
    /\ (pc \in LoopPcs \/ inputLog # <<>> => ReadyLines = {1})

\* A job has been read and answered after the ready signal.
C11_Witness ==
    /\ pc = "top"
    /\ inputLog # <<>>
    /\ LineIsJob(inputLog[cur])
    /\ Len(stdout) >= 2

(***************************************************************************)
(* C12: when WHISPER_MODEL or TRANSCRIPTION_DEVICE is not set, and when    *)
(* any other startup step fails (the tone module ends the process, the     *)
(* environment validation fails, the model does not load), the process     *)
(* has exited with a non-zero status, stdout is empty (no ready signal)    *)
(* and no line has been read from stdin.                                   *)
(***************************************************************************)
MissingRequired ==
    /\ pc \notin {"import", "load_env"}
    /\ (WHISPER_MODEL = None \/ TRANSCRIPTION_DEVICE = None)

StartupFailure ==
    \E i \in 1..Len(startup) :
        \/ startup[i].step = "import_tone" /\ startup[i].outcome = "SystemExit"
        \/ /\ startup[i].step = "validate"
           /\ \/ ~startup[i].python_ok
              \/ ~startup[i].imports_ok
              \/ (TRANSCRIPTION_DEVICE = "cuda" /\ ~torch.cuda)
        \/ startup[i].step = "load_model" /\ ~startup[i].ok

C12_StartupFailureExitsBeforeReady ==
    MissingRequired \/ StartupFailure =>
        /\ pc = "exited"
        /\ Len(exit_code) = 1
        /\ exit_code[1] # 0
        /\ stdout = <<>>
        /\ inputLog = <<>>
        /\ readLog = <<>>

\* The device selector is missing (the model identifier is set).
C12_Witness ==
    /\ pc = "exited"
    /\ WHISPER_MODEL = "base"
    /\ TRANSCRIPTION_DEVICE = None
    /\ exit_code = <<1>>

(***************************************************************************)
(* C13: the ids on the response lines of stdout, in order, are the ids of  *)
(* the job lines read, in order: of all of them when the loop is at its    *)
(* top (where the next line is read), of all but the current one while the *)
(* current job is still being handled.                                     *)
(***************************************************************************)
Responses == SelectSeq(stdout, IsResponse)
ResponseIds == [i \in 1..Len(Responses) |-> Responses[i].id]
JobsAmong(lines) == SelectSeq(lines, LineIsJob)
JobIdsAmong(lines) ==
    [i \in 1..Len(JobsAmong(lines)) |-> JobId(JobsAmong(lines)[i])]

C13_ResponsesInJobOrder ==
    IF pc = "top"
    THEN ResponseIds = JobIdsAmong(inputLog)
    ELSE ResponseIds = JobIdsAmong(SubSeq(inputLog, 1, cur - 1))

\* The half of C13 that the code keeps: a line is read only when every job
\* read before has its response, and the responses of the jobs are in the
\* order of the jobs.
C13_NoReadBeforeResponse ==
    /\ \A k \in 1..cur :
         LineIsJob(inputLog[k]) /\ (k < cur \/ pc = "top") =>
             \E j \in WrittenDuring(k) :
                 IsResponse(stdout[j]) /\ stdout[j].id = JobId(inputLog[k])
    /\ \A i, j \in 1..Len(stdout) : i < j => outLine[i] <= outLine[j]

(***************************************************************************)
(* C14: when readline() blocked for at least the heartbeat interval        *)
(* before it returned a job, a heartbeat line was written to stdout once   *)
(* the interval had passed in that wait and before the job was read.       *)
(***************************************************************************)
IsHeartbeat(r) == "heartbeat" \in DOMAIN r

\* The positions on stdout of the heartbeats written between the reads of
\* line k - 1 and of line k.
HeartbeatsBefore(k) ==
    {j \in 1..Len(stdout) : IsHeartbeat(stdout[j]) /\ outLine[j] = k - 1}

C14_HeartbeatBeforeJobAfterIdle ==
    \A k \in 1..cur :
        LineIsJob(inputLog[k]) /\ readLog[k].waited >= HeartbeatInterval =>
            \E j \in HeartbeatsBefore(k) :
                /\ stdout[j].timestamp >=
                       readLog[k].at - readLog[k].waited + HeartbeatInterval
                /\ stdout[j].timestamp <= readLog[k].at

\* What the code does instead: a heartbeat written between two reads is
\* stamped with the instant at which the wait for the next line begins; none
\* is written while readline() blocks, so the heartbeat of a long wait comes
\* at the top of the next iteration, after the job's response.
C14_NoHeartbeatDuringTheWait ==
    \A k \in 1..cur :
        \A j \in HeartbeatsBefore(k) :
            stdout[j].timestamp + readLog[k].waited = readLog[k].at

(***************************************************************************)
(* C15: a heartbeat is written only when at least the heartbeat interval   *)
(* has passed since the last job was read and since the last heartbeat.    *)
(***************************************************************************)
C15_HeartbeatOnlyAfterIdleInterval ==
    \A j \in 1..Len(stdout) :
        IsHeartbeat(stdout[j]) =>
            /\ \A k \in 1..outLine[j] :
                 LineIsJob(inputLog[k]) =>
                     stdout[j].timestamp - readLog[k].at >= HeartbeatInterval
            /\ \A i \in 1..(j - 1) :
                 IsHeartbeat(stdout[i]) =>
                     stdout[j].timestamp - stdout[i].timestamp >= HeartbeatInterval

\* What the code keeps: a heartbeat is written only when more than the
\* interval has passed since the last heartbeat (or since loop entry).
C15_HeartbeatOnlyAfterLastHeartbeat ==
    \A j \in 1..Len(stdout) :
        IsHeartbeat(stdout[j]) =>
            /\ stdout[j].timestamp > HeartbeatInterval
            /\ \A i \in 1..(j - 1) :
                 IsHeartbeat(stdout[i]) =>
                     stdout[j].timestamp - stdout[i].timestamp > HeartbeatInterval

(***************************************************************************)
(* C16: every response line has either success fields (transcription, or   *)
(* has_two_tone / detected_tones) or an error field, never both and never  *)
(* neither.                                                                *)
(***************************************************************************)
HasSuccessFields(r) ==
    \/ "transcription" \in DOMAIN r
    \/ "has_two_tone" \in DOMAIN r
    \/ "detected_tones" \in DOMAIN r

C16_SuccessXorError ==
    \A j \in 1..Len(stdout) :
        IsResponse(stdout[j]) => ~(HasSuccessFields(stdout[j]) <=> IsError(stdout[j]))

\* What the code keeps: a response has a transcription or an error and not
\* both, unless it is the response of a tone detection.
C16_SuccessXorErrorButTones ==
    \A j \in 1..Len(stdout) :
        IsResponse(stdout[j]) /\ "has_two_tone" \notin DOMAIN stdout[j] =>
            ~(IsTranscription(stdout[j]) <=> IsError(stdout[j]))

(***************************************************************************)
(* C17: a transcribe job, or a detect_tones job on a worker that has a     *)
(* tone detector, whose path names no file when the worker looks for it,   *)
(* ends with the single response {id, error: "Audio file does not exist:   *)
(* <path>"}, and nothing but that one os.path.isfile call is made for it:  *)
(* no size check, no probe, no backend call, no tone detection.            *)
(***************************************************************************)
CurObj == inputLog[cur].obj

\* The current line is a transcribe or detect_tones job on the path that
\* names no file.
JobOnMissingPath ==
    /\ cur > 0
    /\ LineIsJob(inputLog[cur])
    /\ CurObj.command \in {"transcribe", "detect_tones"}
    /\ CurObj.path = MissingPath

HasToneDetector == TONE_DETECTION_AVAILABLE = <<TRUE>> /\ tone_detector

\* The job ended with the does-not-exist error and one isfile call.
EndedAsMissingPath ==
    /\ EndsWithError("Audio file does not exist: ")
    /\ TheResponse = [id |-> JobId(inputLog[cur]),
                      error |-> [msg |-> "Audio file does not exist: ",
                                 arg |-> CurObj.path]]
    /\ calls = <<[fn |-> "isfile", ret |-> FALSE]>>

C17_MissingPathErrorWhenResolved ==
    /\ (JobOnMissingPath /\ pc = "top"
         /\ (CurObj.command = "detect_tones" => HasToneDetector)
            => EndedAsMissingPath)
    /\ (calls # <<>> /\ calls[1].fn = "isfile" /\ ~calls[1].ret
            => EndedAsMissingPath)

\* A detect_tones job on the missing path, on a worker with a detector.
C17_Witness ==
    /\ JobOnMissingPath
    /\ CurObj.command = "detect_tones"
    /\ HasToneDetector
    /\ pc = "top"
    /\ calls = <<[fn |-> "isfile", ret |-> FALSE]>>

\* C17 as it was stated: whatever the worker's tone detector.
C17_MissingPathError ==
    JobOnMissingPath /\ pc = "top" => EndedAsMissingPath

(***************************************************************************)
(* C18: a transcribe job without path whose inline payload is no base64,   *)
(* decodes to zero bytes, or decodes to bytes that are no audio, makes no  *)
(* collaborator call at all (no backend call, no size check, no probe) and *)
(* ends with exactly one response, an error carrying its id.               *)
(***************************************************************************)
UnusablePayloads == {B64Invalid, B64Empty, B64NotAudio}

JobWithUnusablePayload ==
    /\ cur > 0
    /\ LineIsJob(inputLog[cur])
    /\ CurObj.command = "transcribe"
    /\ CurObj.path = Absent
    /\ CurObj.audio_data_base64 \in UnusablePayloads

C18_UnusablePayloadOneError ==
    JobWithUnusablePayload =>
        /\ calls = <<>>
        /\ pc \in {"dispatch", "top"}
        /\ (pc = "dispatch" => WrittenDuring(cur) = {})
        /\ (pc = "top" =>
               /\ OneResponse
               /\ IsError(TheResponse)
               /\ ~IsTranscription(TheResponse)
               /\ TheResponse.id = JobId(inputLog[cur]))

\* The payload decodes to bytes that pydub cannot read; the job is answered.
C18_Witness ==
    /\ JobWithUnusablePayload
    /\ CurObj.audio_data_base64 = B64NotAudio
    /\ pc = "top"
    /\ OneResponse

(***************************************************************************)
(* C19: a detect_tones job without path makes no collaborator call (the    *)
(* tone detector is not invoked) and ends with exactly one response, an    *)
(* error carrying its id.                                                  *)
(***************************************************************************)
ToneJobWithoutPath ==
    /\ cur > 0
    /\ LineIsJob(inputLog[cur])
    /\ CurObj.command = "detect_tones"
    /\ CurObj.path = Absent

C19_ToneJobWithoutPathOneError ==
    ToneJobWithoutPath =>
        /\ CallsOf("tone") = <<>>
        /\ calls = <<>>
        /\ pc \in {"dispatch", "top"}
        /\ (pc = "dispatch" => WrittenDuring(cur) = {})
        /\ (pc = "top" =>
               /\ OneResponse
               /\ IsError(TheResponse)
               /\ "has_two_tone" \notin DOMAIN TheResponse
               /\ TheResponse.id = JobId(inputLog[cur]))

\* The job carries only audio_data_base64 and the worker has a detector.
C19_Witness ==
    /\ ToneJobWithoutPath
    /\ CurObj.audio_data_base64 = B64Audio
    /\ HasToneDetector
    /\ pc = "top"
    /\ OneResponse

(***************************************************************************)
(* C20: when the detection that produced the result of a detect_tones job  *)
(* (the command-line tool, or the library after the tool failed) reports   *)
(* one or more two-tone calls, the response has has_two_tone true, the     *)
(* requested path as file_path, and one entry of detected_tones per        *)
(* reported call, with that call's tone_a and tone_b.                      *)
(***************************************************************************)
\* calls[i] is the detection whose result the job uses, and it reports the
\* calls it found (the tool as JSON, the library as objects).
ProducedResult(i) ==
    \/ calls[i].fn = "cli" /\ calls[i].outcome.kind = "json"
    \/ calls[i].fn = "api" /\ ~calls[i].outcome.raised

ReportsTwoTone(r, reported) ==
    /\ "has_two_tone" \in DOMAIN r
    /\ r.has_two_tone = TRUE
    /\ r.file_path = CurObj.path
    /\ Len(r.detected_tones) = Len(reported)
    /\ \A n \in 1..Len(reported) :
         /\ r.detected_tones[n].tone_a = reported[n].a
         /\ r.detected_tones[n].tone_b = reported[n].b

C20_TwoToneCallsReported ==
    \A i \in 1..Len(calls) :
        /\ pc = "top"
        /\ ProducedResult(i)
        /\ calls[i].outcome.report.two_tone # <<>>
        /\ \A t \in 1..Len(calls) : calls[t].fn = "tone" => ~calls[t].raised
        => OneResponse /\ ReportsTwoTone(TheResponse, calls[i].outcome.report.two_tone)

\* What the code keeps: the claim for a result of the library.
C20_TwoToneCallsReportedByLibrary ==
    \A i \in 1..Len(calls) :
        /\ pc = "top"
        /\ calls[i].fn = "api"
        /\ ProducedResult(i)
        /\ calls[i].outcome.report.two_tone # <<>>
        /\ \A t \in 1..Len(calls) : calls[t].fn = "tone" => ~calls[t].raised
        => OneResponse /\ ReportsTwoTone(TheResponse, calls[i].outcome.report.two_tone)

(***************************************************************************)
(* C21: an exception raised while a job whose id has been parsed is        *)
(* dispatched, and that no inner handler turned into a response, gives     *)
(* exactly one "Unexpected server error" response carrying that job's id;  *)
(* an exception raised when no id is known for the line gives no response  *)
(* line.                                                                   *)
(***************************************************************************)
\* Line k is a job whose dispatch raises outside every inner handler: its
\* path is no string, and os.path.isfile is reached with it.
RaisesWhileDispatched(k) ==
    /\ LineIsJob(inputLog[k])
    /\ inputLog[k].obj.path = PathNotStr
    /\ \/ inputLog[k].obj.command = "transcribe"
       \/ inputLog[k].obj.command = "detect_tones" /\ HasToneDetector

\* Line k raises before an id is known for it: json.loads fails, or the
\* parsed value has no get().
RaisesWithoutId(k) == inputLog[k].kind \in {"notjson", "nonobject"}

UnexpectedErrorFor(k, j) ==
    /\ IsResponse(stdout[j]) /\ IsError(stdout[j])
    /\ stdout[j].id = JobId(inputLog[k])
    /\ stdout[j].error.msg = "Unexpected server error: "

C21_LoopBoundaryHandler ==
    \A k \in 1..cur :
        Handled_(k) =>
            /\ RaisesWhileDispatched(k) =>
                 /\ Cardinality(WrittenDuring(k)) = 1
                 /\ \A j \in WrittenDuring(k) : UnexpectedErrorFor(k, j)
            /\ RaisesWithoutId(k) => WrittenDuring(k) = {}

\* The part of C21 that the code keeps: the job whose dispatch raises gets
\* the one "Unexpected server error" response with its id, and a line that
\* is no JSON gets none.
C21_DispatchExceptionReported ==
    \A k \in 1..cur :
        Handled_(k) =>
            /\ RaisesWhileDispatched(k) =>
                 /\ Cardinality(WrittenDuring(k)) = 1
                 /\ \A j \in WrittenDuring(k) : UnexpectedErrorFor(k, j)
            /\ inputLog[k].kind = "notjson" => WrittenDuring(k) = {}

(***************************************************************************)
(* C22: two transcribe jobs with the same audio input, wherever they come  *)
(* in the worker's life, are given identical first-pass parameter records: *)
(* the record is the same whatever the earlier jobs were and however they  *)
(* ended.                                                                  *)
(***************************************************************************)
\* The audio input of the job on line k: its path or its inline payload.
AudioInputOf(k) == <<inputLog[k].obj.path, inputLog[k].obj.audio_data_base64>>

C22_SameInputSameFirstPassParams ==
    \A i, j \in 1..Len(paramLog) :
        AudioInputOf(paramLog[i].line) = AudioInputOf(paramLog[j].line)
            => paramLog[i].params = paramLog[j].params

\* Two jobs with the same input had their first pass, and the first of them
\* went through the retry, which left retry_params behind.
C22_Witness ==
    /\ Len(paramLog) = 2
    /\ paramLog[1].line # paramLog[2].line
    /\ AudioInputOf(paramLog[1].line) = AudioInputOf(paramLog[2].line)
    /\ inputLog[1].obj.id # inputLog[2].obj.id
    /\ retry_params # <<>>
    /\ pc = "top"

(***************************************************************************)
(* C23: a backend failure is answered with exactly one of three errors:    *)
(* corrupt audio when its text contains "[Errno 1094995529]", "Invalid     *)
(* data found" or, in any case, "corrupt"; otherwise out of memory when it *)
(* contains "memory" in any case; otherwise the generic error, which       *)
(* carries the failure text unchanged. A text that passes both the corrupt *)
(* and the memory test is answered as corrupt audio.                       *)
(***************************************************************************)
SaysCorrupt(t) ==
    \/ Contains(t, <<"[Errno 1094995529]">>)
    \/ Contains(t, <<"Invalid", "data", "found">>)
    \/ Contains(LowerText(t), <<"corrupt">>)
SaysMemory(t) == Contains(LowerText(t), <<"memory">>)

\* The backend call that ended the current job by raising.
BackendRaised ==
    /\ pc = "top"
    /\ BackendCalls # <<>>
    /\ BackendCalls[Len(BackendCalls)].outcome.raised
FailureText == BackendCalls[Len(BackendCalls)].outcome.text

C23_FailureClassification ==
    BackendRaised =>
        /\ OneResponse
        /\ IsError(TheResponse)
        /\ TheResponse.id = JobId(inputLog[cur])
        /\ TheResponse.error.id = JobId(inputLog[cur])
        /\ TheResponse.error.msg =
             IF SaysCorrupt(FailureText)
             THEN "Corrupt audio data for ID {}."
             ELSE IF SaysMemory(FailureText)
             THEN "Out of memory during transcription for ID {}."
             ELSE "Error during transcription for ID {}: "
        /\ TheResponse.error.text =
             IF SaysCorrupt(FailureText) \/ SaysMemory(FailureText)
             THEN <<>> ELSE FailureText

\* A failure whose text passes both tests, inside longer words and in
\* capitals, was answered as corrupt audio.
C23_Witness ==
    /\ BackendRaised
    /\ FailureText = <<"MemoryError", "Corrupted">>
    /\ TheResponse.error.msg = "Corrupt audio data for ID {}."

(***************************************************************************)
(* C24: for one detect_tones job the command-line tool is run at most      *)
(* once and the library at most once, the library only after a run of the  *)
(* tool that failed; an analysed file always gets the run of the tool.     *)
(* As stated (one detection attempt per job, no library run after a failed *)
(* run of the tool) the claim is C24_OneDetectionAttempt.                  *)
(***************************************************************************)
CliRuns == CallsOf("cli")
ApiRuns == CallsOf("api")

C24_LibraryOnlyAfterFailedTool ==
    /\ Len(CallsOf("tone")) <= 1
    /\ Len(CliRuns) <= 1
    /\ Len(ApiRuns) <= 1
    /\ ApiRuns # <<>> => CliRuns # <<>> /\ CliRuns[1].outcome.kind = "fail"
    /\ CliRuns # <<>> /\ CliRuns[1].outcome.kind = "fail" => ApiRuns # <<>>
    /\ CliRuns # <<>> <=> \E i \in 1..Len(calls) : calls[i].fn = "exists" /\ calls[i].ret

\* A job whose run of the tool failed and whose file went to the library.
C24_Witness ==
    /\ pc = "top"
    /\ Len(CliRuns) = 1 /\ CliRuns[1].outcome.kind = "fail"
    /\ Len(ApiRuns) = 1 /\ ~ApiRuns[1].outcome.raised
    /\ OneResponse /\ ~IsError(TheResponse)

\* C24 as it was stated: one detection attempt per job.
C24_OneDetectionAttempt == Len(CliRuns) + Len(ApiRuns) <= 1

(***************************************************************************)
(* C25: when more than one category of events is reported, the detected    *)
(* type of the result is the first non-empty category in the order         *)
(* two-tone, pulsed, long, and that category alone, whether the result     *)
(* comes from the library, from the tool's JSON output or from the tool's  *)
(* text output.                                                            *)
(***************************************************************************)
\* What the detection of the current job found, as <<report>>: the output of
\* the tool when its run succeeded, else what the library returned.
FoundReport ==
    IF CliRuns # <<>> /\ CliRuns[1].outcome.kind # "fail"
    THEN <<CliRuns[1].outcome.report>>
    ELSE IF ApiRuns # <<>> /\ ~ApiRuns[1].outcome.raised
    THEN <<ApiRuns[1].outcome.report>>
    ELSE <<>>

NonEmptyCategories(report) ==
    {c \in {"two_tone", "pulsed", "long"} : report[c] # <<>>}

FirstCategory(report) ==
    IF report.two_tone # <<>> THEN "two-tone"
    ELSE IF report.pulsed # <<>> THEN "pulsed"
    ELSE "long"

\* The dict detect_tones_in_file returned for the current job.
ToneResult == CallsOf("tone")[1].result

C25_TypeByPrecedence ==
    /\ CallsOf("tone") # <<>>
    /\ FoundReport # <<>>
    /\ Cardinality(NonEmptyCategories(FoundReport[1])) > 1
    => ToneResult.detected_type = FirstCategory(FoundReport[1])

\* The path on which C25 holds: the text output of the tool.
C25_TypeByPrecedenceOnText ==
    /\ CallsOf("tone") # <<>>
    /\ CliRuns # <<>> /\ CliRuns[1].outcome.kind = "text"
    /\ Cardinality(NonEmptyCategories(FoundReport[1])) > 1
    => ToneResult.detected_type = FirstCategory(FoundReport[1])

\* The library's order is two-tone, long, pulsed.
C25_LibraryPrefersLong ==
    /\ CallsOf("tone") # <<>>
    /\ ApiRuns # <<>> /\ ~ApiRuns[1].outcome.raised
    /\ ApiRuns[1].outcome.report.two_tone = <<>>
    /\ ApiRuns[1].outcome.report.long # <<>>
    => ToneResult.detected_type = "long"

(***************************************************************************)
(* C26: when only pulsed or only long events are reported, the response    *)
(* has the tone flag true and detected_tones holds one entry per reported  *)
(* event with that event's frequency; and in every detect_tones response   *)
(* the tone flag is true exactly when detected_tones is non-empty.         *)
(***************************************************************************)
IsToneResponse(r) == "has_two_tone" \in DOMAIN r

\* Only pulsed events, or only long events, were found: <<the events>>.
OnlyPulsedOrLong ==
    IF FoundReport = <<>> \/ FoundReport[1].two_tone # <<>> THEN <<>>
    ELSE IF FoundReport[1].pulsed # <<>> /\ FoundReport[1].long = <<>>
    THEN <<FoundReport[1].pulsed>>
    ELSE IF FoundReport[1].long # <<>> /\ FoundReport[1].pulsed = <<>>
    THEN <<FoundReport[1].long>>
    ELSE <<>>

C26_PulsedAndLongListed ==
    pc = "top" /\ cur > 0 /\ OneResponse /\ IsToneResponse(TheResponse) =>
        /\ OnlyPulsedOrLong # <<>> =>
             /\ TheResponse.has_two_tone
             /\ Len(TheResponse.detected_tones) = Len(OnlyPulsedOrLong[1])
             /\ \A i \in 1..Len(OnlyPulsedOrLong[1]) :
                  /\ "frequency" \in DOMAIN TheResponse.detected_tones[i]
                  /\ TheResponse.detected_tones[i].frequency = OnlyPulsedOrLong[1][i].a
        /\ TheResponse.has_two_tone <=> TheResponse.detected_tones # <<>>

\* The part of C26 that the code keeps: the flag is set for pulsed-only and
\* long-only findings, and a non-empty detected_tones comes with the flag.
C26_FlagSetAndTonesImplyFlag ==
    pc = "top" /\ cur > 0 /\ OneResponse /\ IsToneResponse(TheResponse) =>
        /\ OnlyPulsedOrLong # <<>> => TheResponse.has_two_tone
        /\ TheResponse.detected_tones # <<>> => TheResponse.has_two_tone

(***************************************************************************)
(* C28: a detect_tones job passes through the integrity check before the   *)
(* tone detection: the detection is only reached after the size of the     *)
(* file has been read and found within the bounds, so that for a file      *)
(* whose size is outside the bounds the detection is never invoked.        *)
(***************************************************************************)
IsDetectionCall(c) == c.fn \in {"tone", "cli", "api"}

C28_SizeCheckedBeforeDetection ==
    \A i \in 1..Len(calls) :
        IsDetectionCall(calls[i]) =>
            \E j \in 1..(i - 1) :
                /\ calls[j].fn = "getsize"
                /\ ~calls[j].raised
                /\ calls[j].size >= MinFileSize
                /\ calls[j].size <= MaxFileSize

\* What the code does check before the detection: that the path names a
\* file.
C28_ExistenceCheckedBeforeDetection ==
    \A i \in 1..Len(calls) :
        IsDetectionCall(calls[i]) =>
            \E j \in 1..(i - 1) : calls[j].fn = "isfile" /\ calls[j].ret

(***************************************************************************)
(* C29: once the response of a transcribe job with an inline payload has   *)
(* been written, and before the next line is read, no name of the worker   *)
(* is bound to that job's decoded bytes, to its audio segment or to its    *)
(* sample array; the decoded bytes and the audio segment are already       *)
(* released when the backend is called for the first time.                 *)
(***************************************************************************)
\* The name is bound to no object.
Released(v) == v \in {Unbound, None}

\* The current line was a transcribe job with an inline payload, and its
\* response has been written.
InlineJobAnswered ==
    /\ pc = "top"
    /\ cur > 0
    /\ LineIsJob(inputLog[cur])
    /\ CurObj.command = "transcribe"
    /\ CurObj.path = Absent
    /\ CurObj.audio_data_base64 # Absent
    /\ OneResponse

C29_BuffersReleased ==
    /\ InlineJobAnswered =>
         /\ Released(audio_bytes)
         /\ Released(audio_segment)
         /\ Released(samples)
         /\ Released(audio_input)
    /\ pc = "first_pass" /\ input_type = "buffer" =>
         Released(audio_bytes) /\ Released(audio_segment)

\* What the code releases: the name audio_input, after the response of an
\* inline job that reached the backend.
C29_AudioInputDeleted ==
    InlineJobAnswered /\ BackendCalls # <<>> => audio_input = Unbound

(***************************************************************************)
(* C30: when the requested device is not available (cuda without CUDA, mps *)
(* without MPS) and nothing else fails, the process does not exit: the     *)
(* model is loaded on another device, cuda or cpu, that is available, and  *)
(* the ready signal is written before the loop is entered.                 *)
(***************************************************************************)
RequestedUnavailable(dev) ==
    /\ TRANSCRIPTION_DEVICE = dev
    /\ ~torch[dev]

\* A startup step failed for a reason that is not the device.
OtherStartupFailure ==
    \/ WHISPER_MODEL = None
    \/ \E i \in 1..Len(startup) :
         \/ startup[i].step = "import_tone" /\ startup[i].outcome = "SystemExit"
         \/ startup[i].step = "validate"
              /\ (~startup[i].python_ok \/ ~startup[i].imports_ok)
         \/ startup[i].step = "load_model" /\ ~startup[i].ok

ModelLoaded == \E i \in 1..Len(startup) : startup[i].step = "load_model" /\ startup[i].ok

FallsBack(dev) ==
    RequestedUnavailable(dev) /\ ~OtherStartupFailure =>
        /\ pc # "exited"
        /\ ModelLoaded =>
             /\ device \in {"cuda", "cpu"}
             /\ device = "cuda" => torch.cuda
        /\ pc \in LoopPcs => stdout # <<>> /\ stdout[1] = ReadySignal

C30_UnavailableDeviceFallsBack == FallsBack("cuda") /\ FallsBack("mps")

\* The part of C30 that the code keeps: the fallback from mps.
C30_MpsFallsBack == FallsBack("mps")

\* A worker asked for mps on a machine without it, running on cuda.
C30_MpsWitness ==
    /\ RequestedUnavailable("mps")
    /\ pc = "top"
    /\ device = "cuda"
    /\ stdout[1] = ReadySignal

(***************************************************************************)
(* C27: for every parameter key, the value the detection is run with is    *)
(* the override given for it when there is one, otherwise the value of the *)
(* selected detection-type profile, otherwise the bare default; so with no *)
(* override set in the environment every value the detection is run with   *)
(* is the profile's.                                                       *)
(***************************************************************************)
\* The environment the detector was built in.
BuiltIn == startup[Len(startup)].env
DetectorBuilt ==
    /\ startup # <<>>
    /\ startup[Len(startup)].step = "init_tone"
    /\ tone_detector

\* The override the environment holds for a key, as <<value>>, or <<>>.
OverrideIn(env, k) ==
    CASE k = "tone_b_min_length" -> EnvEntry(env.TWO_TONE_MAX_TONE_LENGTH)
      [] k = "matching_threshold" ->
             IF env.TWO_TONE_DETECTION_THRESHOLD.set
             THEN EnvEntry(env.TWO_TONE_DETECTION_THRESHOLD)
             ELSE EnvEntry(env.TONE_DETECTION_THRESHOLD)
      [] k = "pulsed_min_cycles" -> EnvEntry(env.PULSED_MIN_CYCLES)

\* The value of the selected profile for a key, as <<value>>, or <<>>.
ProfileValue(env, k) == DefaultConfig(DetectionType(env)).values[k]

\* Override, else profile (<<>> when neither has the key).
OverrideElseProfile(env, k) ==
    IF OverrideIn(env, k) # <<>> THEN OverrideIn(env, k) ELSE ProfileValue(env, k)

\* The values a detection call was given, as a dict over ConfigKeys.
GivenTo(c) == IF c.fn = "api" THEN c.kwargs.values ELSE c.args

C27_OverrideElseProfile ==
    DetectorBuilt =>
        \A i \in 1..Len(calls) :
            calls[i].fn \in {"cli", "api"} =>
                \A k \in ConfigKeys :
                    GivenTo(calls[i])[k] # <<>> /\ OverrideElseProfile(BuiltIn, k) # <<>>
                        => GivenTo(calls[i])[k] = OverrideElseProfile(BuiltIn, k)

\* What the code does: a key of the worker's tone_config has the value of
\* the worker's variable or the worker's own default, whatever the profile;
\* any other key has the detector's variable, else the profile.
WorkerValue(env, k) ==
    CASE k = "tone_b_min_length" ->
             <<IF env.TWO_TONE_MAX_TONE_LENGTH.set
               THEN env.TWO_TONE_MAX_TONE_LENGTH.num ELSE 500>>
      [] k = "matching_threshold" ->
             <<IF env.TWO_TONE_DETECTION_THRESHOLD.set
               THEN env.TWO_TONE_DETECTION_THRESHOLD.num ELSE 250>>
      [] OTHER -> OverrideElseProfile(env, k)

C27_WorkerDefaultsBeforeProfile ==
    DetectorBuilt =>
        /\ \A k \in ConfigKeys :
             detection_config[1].values[k] = WorkerValue(BuiltIn, k)
        /\ \A i \in 1..Len(calls) :
             /\ calls[i].fn = "api" => calls[i].kwargs = detection_config[1]
             /\ calls[i].fn = "cli" =>
                  \A k \in ConfigKeys :
                      calls[i].args[k] # <<>> =>
                          calls[i].args[k] = WorkerValue(BuiltIn, k)

(***************************************************************************)
(* C31: heartbeats and jobs in progress                                    *)
(***************************************************************************)

\* The lines one step adds to stdout.
NewLines == SubSeq(stdout', Len(stdout) + 1, Len(stdout'))

\* A step writes a heartbeat only from the top of the loop, at most one, and
\* before anything else it writes.
HeartbeatOnlyFirstAtTop ==
    /\ Len(stdout') >= Len(stdout)
    /\ \A j \in 1..Len(NewLines) :
           IsHeartbeat(NewLines[j]) => j = 1 /\ pc = "top"

\* C31: a heartbeat line is written only at the top of a loop iteration:
\* between the read of a job's line and the write of its response no
\* heartbeat appears on stdout, and an iteration writes at most one.
C31_HeartbeatOnlyAtTop == [][HeartbeatOnlyFirstAtTop]_vars

\* A job whose processing outlasted the heartbeat interval has been answered,
\* a heartbeat is overdue, and nothing but the response was written since the
\* job's line was read.
C31_Witness ==
    /\ pc = "top" /\ cur >= 1
    /\ LineIsJob(inputLog[cur])
    /\ clock - readLog[cur].at > HeartbeatInterval
    /\ HeartbeatDue(clock, last_heartbeat)
    /\ OneResponse /\ IsResponse(TheResponse)

(***************************************************************************)
(* C32: the two kinds of job keep to their own collaborators               *)
(***************************************************************************)

\* The current line is a job with this command.
CurJobIs(cmd) ==
    /\ cur > 0
    /\ LineIsJob(inputLog[cur])
    /\ CurObj.command = cmd

\* The calls of the transcription section: the size check, the structural
\* probe and the backend.
IsTranscriptionCall(c) == c.fn \in {"getsize", "probe", "backend"}

TranscriptionPcs == {"validate", "first_pass", "second_pass"}

\* C32: a detect_tones job never invokes the transcription backend or the
\* structural probe and never enters the transcription section, whether its
\* response is a result or an error; a transcribe job never invokes the tone
\* detector.
C32_JobsKeepToTheirCollaborators ==
    /\ CurJobIs("detect_tones") =>
           /\ pc \notin TranscriptionPcs
           /\ \A i \in 1..Len(calls) : ~IsTranscriptionCall(calls[i])
    /\ CurJobIs("transcribe") =>
           \A i \in 1..Len(calls) : ~IsDetectionCall(calls[i])

\* A detect_tones job was answered with a detection result and the loop is
\* back at its top.
C32_Witness ==
    /\ CurJobIs("detect_tones")
    /\ pc = "top"
    /\ \E i \in 1..Len(calls) : calls[i].fn = "tone"
    /\ OneResponse /\ IsToneResponse(TheResponse)

(***************************************************************************)
(* C33: detect_tones_in_file always returns a well-formed dict             *)
(***************************************************************************)

\* The input of call d needed a download, and how the download went.
Downloads(d) ==
    /\ StartsWith(d.input, "https://")
    /\ HasSubstring(d.input, "s3")
DownloadFailed(d) ==
    Downloads(d) /\ (d.env.download # "ok" \/ Len(UrlPathParts(d.input)) < 2)

\* C33: detect_tones_in_file never raises: for every outcome of the
\* download, of the command-line run and of the library run it returns a
\* dict that has has_two_tone and file_path, and a dict that has the error
\* key has has_two_tone False.
C33_AlwaysReturnsWellFormed ==
    \A n \in 1..Len(detections) :
        LET d == detections[n] IN
        /\ ~d.raised
        /\ Len(d.result) = 1
        /\ d.result[1].has_two_tone \in BOOLEAN
        /\ d.result[1].file_path # Absent
        /\ d.result[1].error # <<>> => d.result[1].has_two_tone = FALSE

\* One call met a failed download, another a failed tool and a failed
\* library.
C33_Witness ==
    /\ \E n \in 1..Len(detections) : DownloadFailed(detections[n])
    /\ \E n \in 1..Len(detections) :
           /\ ~DownloadFailed(detections[n])
           /\ detections[n].env.cli.kind = "fail"
           /\ detections[n].env.api.raised
           /\ detections[n].result[1].error # <<>>
           /\ detections[n].result[1].error[1].msg
                  = "Both CLI and API failed. CLI: Not attempted, API: "

(***************************************************************************)
(* C34: the temporary file of a download                                   *)
(***************************************************************************)

\* Call d downloaded its input into a temporary file.
Downloaded(d) == Downloads(d) /\ ~DownloadFailed(d)

\* C34: every temporary file that detect_tones_in_file creates by
\* downloading a remote input is deleted before the call returns, on every
\* return path: none of them is left on disk.
C34_TempFilesDeleted ==
    \A n \in 1..Len(detections) :
        Downloaded(detections[n]) => detections[n].temp \notin temp_files

\* What the code deletes: the temporary file of a call that got its result
\* from the library.
C34_DeletedAfterLibrarySuccess ==
    \A n \in 1..Len(detections) :
        LET d == detections[n] IN
        Downloaded(d) /\ d.env.cli.kind = "fail" /\ ~d.env.api.raised
            => d.temp \notin temp_files

(***************************************************************************)
(* C35: the worker without tone detection                                  *)
(***************************************************************************)

\* The import of tone_detect ended in one of these ways.
ToneImportEnded(outcomes) ==
    \E i \in 1..Len(startup) :
        startup[i].step = "import_tone" /\ startup[i].outcome \in outcomes

\* ToneDetector(tone_config) raised.
DetectorInitFailed ==
    \E i \in 1..Len(startup) : startup[i].step = "init_tone" /\ ~startup[i].ok

\* A startup step that has nothing to do with tone detection failed.
FailureOutsideToneDetection ==
    \/ MissingRequired
    \/ \E i \in 1..Len(startup) :
         \/ startup[i].step = "validate"
              /\ \/ ~startup[i].python_ok
                 \/ ~startup[i].imports_ok
                 \/ (TRANSCRIPTION_DEVICE = "cuda" /\ ~torch.cuda)
         \/ startup[i].step = "load_model" /\ ~startup[i].ok

\* The worker runs on without tone detection: it exits before the ready
\* signal only when something else failed, it enters the loop behind the
\* ready signal, a detect_tones job ends with the one error response and no
\* call, a transcribe job with one response.
RunsWithoutToneDetection ==
    /\ pc = "exited" /\ stdout = <<>> => FailureOutsideToneDetection
    /\ pc \in LoopPcs => stdout # <<>> /\ stdout[1] = ReadySignal
    /\ CurJobIs("detect_tones") /\ pc \in LoopPcs =>
         /\ calls = <<>>
         /\ pc \in {"dispatch", "top"}
         /\ pc = "top" =>
              EndsWithError("Tone detection is not available. Please install icad-tone-detection.")
    /\ CurJobIs("transcribe") /\ pc = "top" =>
         /\ OneResponse
         /\ TheResponse.id = JobId(inputLog[cur])
         /\ IsTranscription(TheResponse) \/ IsError(TheResponse)

\* C35: when the tone-detection module cannot be loaded or the detector
\* fails to initialize, the worker still emits the ready signal and serves
\* transcribe jobs, and every detect_tones job gets exactly one error
\* response ('Tone detection is not available...') without any detector
\* call.
C35_RunsWithoutToneDetection ==
    ToneImportEnded({"ImportError", "SystemExit"}) \/ DetectorInitFailed
        => RunsWithoutToneDetection

\* What the code keeps: the same after an ImportError of the import, or
\* after a failed ToneDetector(tone_config).
C35_RunsAfterImportErrorOrInitFailure ==
    ToneImportEnded({"ImportError"}) \/ DetectorInitFailed
        => RunsWithoutToneDetection

\* The detector failed to initialize and a detect_tones job was answered.
C35_InitFailureWitness ==
    /\ DetectorInitFailed
    /\ CurJobIs("detect_tones")
    /\ pc = "top"

(***************************************************************************)
(* C36: the retry of the one-shot variant against the worker's             *)
(***************************************************************************)

\* The one-shot process has ended after at least one backend call.
OneShotRan == pc = "exited" /\ Len(BackendCalls) >= 1
LastOutcome == BackendCalls[Len(BackendCalls)].outcome

\* C36: the one-shot variant runs the retry state machine of the worker on
\* a path input: a second backend call, with the voice-activity filter
\* disabled, is made iff the worker would retry after the first result (it
\* is empty after trimming); at most two calls are made; a result, empty or
\* not, is reported as success with exit status 0; a backend failure ends
\* the run with a non-zero exit status and no success object on stdout.
C36_OneShotRetriesLikeWorker ==
    /\ Len(BackendCalls) <= 2
    /\ Len(BackendCalls) >= 1 =>
         /\ BackendCalls[1].params.vad_filter = TRUE
         /\ BackendCalls[1].params.audio_input = audio_input
    /\ Len(BackendCalls) = 2 =>
         /\ AfterFirstPass(BackendCalls[1].outcome) = "retry"
         /\ BackendCalls[2].params.vad_filter = FALSE
         /\ BackendCalls[2].params.audio_input = audio_input
    /\ OneShotRan /\ Len(BackendCalls) = 1 =>
         AfterFirstPass(BackendCalls[1].outcome) # "retry"
    /\ OneShotRan =>
         /\ Len(exit_code) = 1
         /\ IF AfterSecondPass(LastOutcome) = "error"
            THEN /\ exit_code[1] # 0
                 /\ \A j \in 1..Len(stdout) : ~IsTranscription(stdout[j])
            ELSE /\ exit_code[1] = 0
                 /\ stdout = <<[transcription |->
                                   TranscriptionOf(LastOutcome.segments)]>>

\* Both passes gave nothing: success with an empty transcription, status 0.
C36_Witness ==
    /\ OneShotRan
    /\ Len(BackendCalls) = 2
    /\ TranscriptionOf(LastOutcome.segments) = <<>>
    /\ stdout = <<[transcription |-> <<>>]>>
    /\ exit_code = <<0>>

====
